---- MODULE Spec2Model ----
(***************************************************************************)
(* Model of the monitoring cycle of finance_notifier:                      *)
(*   src/src/app/core.py    run_once, is_market_hours                      *)
(*   src/src/app/market.py  get_open_and_last (the price ladder)           *)
(*   src/src/app/state.py   load_state, save_state                         *)
(*   src/src/app/ntfy.py    notify_ntfy                                    *)
(*   src/src/app/config.py  DEFAULTS, deep_merge, load_config              *)
(* One behaviour is a sequence of run_once calls on one state file.  Each  *)
(* action is one straight-line piece of run_once (or of a function it      *)
(* calls) between two calls to the outside world.                          *)
(***************************************************************************)
EXTENDS Integers, Sequences, FiniteSets, TLC

\* ---------------------------------------------------------------- bounds
\* Longest ticker list handed to run_once.  The number of run_once calls in a
\* behaviour is not bounded: between two calls only the state file remains.
MaxTickers == 2

\* ------------------------------------------------------ program constants
\* market.py:25  "for attempt in range(2)"
Tries == 2
\* core.py:250   "weekday > 4" (0 = Monday ... 6 = Sunday)
LastWeekday == 4

\* ------------------------------------------------------------ value sets
Tickers == {"AAPL", "SAP.DE"}

\* Python's None, as a value comparable with the strings used for directions.
None == "None"

\* Python dicts are functions with a finite domain.
EmptyDict == [k \in {} |-> None]

\* dict.get(k): the value, or None when the key is missing.
Get(d, k) == IF k \in DOMAIN d THEN d[k] ELSE None

\* d[k] = v
Put(d, k, v) == [x \in (DOMAIN d) \cup {k} |-> IF x = k THEN v ELSE d[x]]

\* The ticker lists run_once is called with: non-empty (load_config rejects an
\* empty list), possibly with a repeated ticker.  The first ticker is fixed,
\* the two tickers being interchangeable.
TickerLists ==
    { s \in UNION { [1..n -> Tickers] : n \in 1..MaxTickers } : s[1] = "AAPL" }

\* threshold_pct values (percent).
Thresholds == {0, 3}

\* test_cfg values: DEFAULTS["test"] and variations of it.  force_delta_pct is
\* <<>> for null and <<v>> for the number v.
TestCfgs ==
    { [enabled |-> FALSE, bypass_market_hours |-> TRUE,  force_delta_pct |-> <<>>,   dry_run |-> FALSE],
      [enabled |-> FALSE, bypass_market_hours |-> FALSE, force_delta_pct |-> << -4 >>, dry_run |-> FALSE],
      [enabled |-> TRUE,  bypass_market_hours |-> FALSE, force_delta_pct |-> <<>>,   dry_run |-> FALSE],
      [enabled |-> TRUE,  bypass_market_hours |-> TRUE,  force_delta_pct |-> << 4 >>,  dry_run |-> TRUE],
      [enabled |-> TRUE,  bypass_market_hours |-> TRUE,  force_delta_pct |-> << -4 >>, dry_run |-> FALSE] }

\* news_cfg values: None (the signature is "dict | None"), news off, news on.
NewsCfgs ==
    { [isNone |-> TRUE,  enabled |-> FALSE],
      [isNone |-> FALSE, enabled |-> FALSE],
      [isNone |-> FALSE, enabled |-> TRUE] }

\* market_hours_cfg values: DEFAULTS["market_hours"], gating off, and a window
\* on all seven days.
MarketHoursCfgs ==
    { [enabled |-> TRUE,  start_hour |-> 8, end_hour |-> 22, days_mon_to_fri_only |-> TRUE],
      [enabled |-> FALSE, start_hour |-> 8, end_hour |-> 22, days_mon_to_fri_only |-> TRUE],
      [enabled |-> TRUE,  start_hour |-> 8, end_hour |-> 22, days_mon_to_fri_only |-> FALSE] }

\* What now_tz returns, as far as is_market_hours reads it: weekday and hour.
Nows ==
    { [weekday |-> 0, hour |-> 7],  [weekday |-> 0, hour |-> 8],
      [weekday |-> 4, hour |-> 21], [weekday |-> 4, hour |-> 22],
      [weekday |-> 5, hour |-> 10], [weekday |-> 6, hour |-> 23] }

\* ----------------------------------------------------- the price provider
\* A DataFrame: its columns and its rows (candles), oldest first.
Candle(o, c) == [Open |-> o, Close |-> c]
OHLC == {"Open", "Close"}

UsableFrames ==
    { [cols |-> OHLC, rows |-> << Candle(100, 99), Candle(50, 104) >>],
      [cols |-> OHLC, rows |-> << Candle(100, 96) >>],
      [cols |-> OHLC, rows |-> << Candle(100, 103) >>],
      [cols |-> OHLC, rows |-> << Candle(100, 97) >>],
      [cols |-> OHLC, rows |-> << Candle(100, 100) >>],
      [cols |-> OHLC, rows |-> << Candle(0, 5) >>] }

EmptyFrame == [cols |-> OHLC, rows |-> << >>]
MalformedFrame == [cols |-> {"Open"}, rows |-> << Candle(100, 104) >>]

\* What one yf.Ticker(ticker).history(...) call can do: return a frame, or raise.
ProviderResponses ==
    { [raised |-> FALSE, df |-> f] : f \in UsableFrames \cup {EmptyFrame, MalformedFrame} }
    \cup { [raised |-> TRUE, df |-> EmptyFrame] }

\* market.py:31  "not df.empty and 'Open' in df.columns and 'Close' in df.columns"
Usable(df) == df.rows # << >> /\ "Open" \in df.cols /\ "Close" \in df.cols

\* Mutant of IntradayPrices: the open is read from the last candle too.
IntradayPrices_LastCandle(df) ==
    << df.rows[Len(df.rows)].Open, df.rows[Len(df.rows)].Close >>

\* market.py:32-33  first candle's open, last candle's close.
IntradayPrices(df) == << df.rows[1].Open, df.rows[Len(df.rows)].Close >>

\* market.py:58-59, 75-76  open and close of the last row.
DailyPrices(df) ==
    LET row == df.rows[Len(df.rows)] IN << row.Open, row.Close >>

\* market.py:22  the intraday intervals, finest first.
Intervals == << "1m", "5m", "15m" >>

\* market.py:87  the error get_open_and_last raises; its message holds the ticker.
NoDataError(ticker) ==
    [type |-> "RuntimeError", msg |-> "Could not retrieve price data for", ticker |-> ticker]

\* ------------------------------------------------------- the state file
\* json.dumps of a dict of strings: the text, as its set of "key": "value" members.
Dumps(d) == { << k, d[k] >> : k \in DOMAIN d }

\* Mutant of Loads: every key gets the value of one and the same member.
Loads_OneValue(text) ==
    [k \in { m[1] : m \in text } |-> (CHOOSE m \in text : TRUE)[2]]

\* json.loads of such a text: the dict holding each member.
Loads(text) ==
    [k \in { m[1] : m \in text } |-> (CHOOSE m \in text : m[1] = k)[2]]

\* The file on disk: absent, a JSON object written by save_state, or bytes that
\* are not JSON (a text cut short by a failed write).
AbsentFile == [kind |-> "absent", text |-> {}]
GarbageFile == [kind |-> "garbage", text |-> {}]
JsonFile(d) == [kind |-> "json", text |-> Dumps(d)]

\* Other things a state file can be when it was not written by save_state:
\* JSON that is no object (a list, a number), a path that cannot be read (no
\* permission, a directory), and a JSON object of string values of any kind.
NonDictFile == [kind |-> "nondict", text |-> {}]
UnreadableFile == [kind |-> "unreadable", text |-> {}]

\* The dicts with keys among ks and values among vs.
DictsOver(ks, vs) == UNION { [K -> vs] : K \in SUBSET ks }

\* The records run_once keeps: ticker -> "up" / "down".
Records == DictsOver(Tickers, {"up", "down"})

StateFiles ==
    { AbsentFile, GarbageFile, NonDictFile, UnreadableFile }
    \cup { JsonFile(d) : d \in DictsOver(Tickers, {"up", "down", "sideways"}) }

\* state.py:9-30  load_state: the dict in the file; {} when the file is absent
\* or cannot be parsed (logged as a warning).
load_state(f) ==
    IF f.kind = "json"
    THEN [value |-> Loads(f.text), logs |-> {"DEBUG Loaded state"}]
    ELSE IF f.kind = "absent"
    THEN [value |-> EmptyDict, logs |-> {}]
    ELSE IF f.kind = "nondict"
    THEN [value |-> EmptyDict, logs |-> {"WARNING State file did not contain a dict"}]
    ELSE [value |-> EmptyDict, logs |-> {"WARNING Could not read state file"}]

\* What path.write_text can do: write the whole text; fail before the file is
\* opened (left as it was); fail after open() truncated it (left cut short).
WriteResults == {"written", "open_failed", "write_failed"}

\* state.py:35-45  save_state: the file after the call and what was logged.
\* An exception of write_text is caught and logged, never raised.
save_state(f, d, result) ==
    IF result = "written"
    THEN [file |-> JsonFile(d), logs |-> {"DEBUG Saved state"}]
    ELSE IF result = "open_failed"
    THEN [file |-> f, logs |-> {"WARNING Could not write state file"}]
    ELSE [file |-> GarbageFile, logs |-> {"WARNING Could not write state file"}]

\* ------------------------------------------------------------ MarketClock
\* Mutant of is_market_hours: Saturday counts as a working day.
is_market_hours_SaturdayOpen(cfg_mh, now) ==
    IF ~cfg_mh.enabled THEN TRUE
    ELSE IF cfg_mh.days_mon_to_fri_only /\ now.weekday > LastWeekday + 1 THEN FALSE
    ELSE IF ~(cfg_mh.start_hour <= now.hour /\ now.hour < cfg_mh.end_hour) THEN FALSE
    ELSE TRUE

\* Mutant of is_market_hours: the hour equal to end_hour is open.
is_market_hours_EndInclusive(cfg_mh, now) ==
    IF ~cfg_mh.enabled THEN TRUE
    ELSE IF cfg_mh.days_mon_to_fri_only /\ now.weekday > LastWeekday THEN FALSE
    ELSE IF ~(cfg_mh.start_hour <= now.hour /\ now.hour <= cfg_mh.end_hour) THEN FALSE
    ELSE TRUE

\* Mutant of is_market_hours: a window with start_hour > end_hour wraps around
\* midnight.
is_market_hours_WrapsMidnight(cfg_mh, now) ==
    IF ~cfg_mh.enabled THEN TRUE
    ELSE IF cfg_mh.days_mon_to_fri_only /\ now.weekday > LastWeekday THEN FALSE
    ELSE IF cfg_mh.start_hour > cfg_mh.end_hour
    THEN cfg_mh.start_hour <= now.hour \/ now.hour < cfg_mh.end_hour
    ELSE IF ~(cfg_mh.start_hour <= now.hour /\ now.hour < cfg_mh.end_hour) THEN FALSE
    ELSE TRUE

\* core.py:226-267  is_market_hours, on the time now_tz returned.
is_market_hours(cfg_mh, now) ==
    IF ~cfg_mh.enabled THEN TRUE
    ELSE IF cfg_mh.days_mon_to_fri_only /\ now.weekday > LastWeekday THEN FALSE
    ELSE IF ~(cfg_mh.start_hour <= now.hour /\ now.hour < cfg_mh.end_hour) THEN FALSE
    ELSE TRUE

\* The clock of the machine, in UTC: weekday (0 = Monday), hour and minute.
Instants ==
    [weekday : 0..6, hour : 0..23, minute : {0, 59}]

\* Timezone identifiers a config can hold: three that ZoneInfo knows, with
\* their offsets from UTC in hours (standard time), and two it rejects.
ZoneOffsets == [x \in {"UTC", "Europe/Berlin", "America/New_York"} |->
                  IF x = "UTC" THEN 0 ELSE IF x = "Europe/Berlin" THEN 1 ELSE -5]
Zones == (DOMAIN ZoneOffsets) \cup {"Europe/Atlantis", ""}

\* datetime.now(ZoneInfo(tz)) for a known zone: the instant, read off a clock
\* of that zone.
InZone(utc, tz) ==
    LET h == utc.weekday * 24 + utc.hour + ZoneOffsets[tz] + 168 IN
    [weekday |-> (h \div 24) % 7, hour |-> h % 24, minute |-> utc.minute]

\* Mutant of now_tz: the exception of ZoneInfo is not caught.
now_tz_Raises(tz, utc) ==
    IF tz \in DOMAIN ZoneOffsets
    THEN [now |-> InZone(utc, tz), logs |-> {}, raised |-> FALSE]
    ELSE [now |-> utc, logs |-> {}, raised |-> TRUE]

\* core.py:210-221  now_tz: the time in the zone; for an identifier ZoneInfo
\* rejects, a warning and the time in UTC.
now_tz(tz, utc) ==
    IF tz \in DOMAIN ZoneOffsets
    THEN [now |-> InZone(utc, tz), logs |-> {}, raised |-> FALSE]
    ELSE [now |-> utc, logs |-> {"WARNING Invalid timezone, falling back to UTC"},
          raised |-> FALSE]

\* market_hours configs with their timezone: every window below on every
\* zone, gating on and off, all days or working days.
ClockCfgs ==
    { [enabled |-> e, tz |-> z, start_hour |-> w[1], end_hour |-> w[2],
       days_mon_to_fri_only |-> d] :
        e \in BOOLEAN, z \in Zones, d \in BOOLEAN,
        w \in { << 8, 22 >>, << 0, 24 >>, << 22, 6 >>, << 8, 8 >> } }

\* core.py:226-267  one call of is_market_hours when the machine's clock shows
\* utc: the answer, the time it was decided on, what was logged and whether
\* an exception left the call.  With gating off the clock is not read.
is_market_hours_call(cfg_mh, utc) ==
    IF ~cfg_mh.enabled
    THEN [open |-> TRUE, read |-> FALSE, now |-> utc, logs |-> {}, raised |-> FALSE]
    ELSE LET r == now_tz(cfg_mh.tz, utc) IN
         [open |-> ~r.raised /\ is_market_hours(cfg_mh, r.now), read |-> TRUE,
          now |-> r.now, logs |-> r.logs, raised |-> r.raised]

\* Mutant of GateDemanded: the gate is consulted outside test mode too.
GateDemanded_AlsoLive(tcfg) == ~tcfg.enabled \/ ~tcfg.bypass_market_hours

\* Mutant of GateDemanded: the negation of the bypass flag is lost.
GateDemanded_BypassInverted(tcfg) == tcfg.enabled /\ tcfg.bypass_market_hours

\* core.py:300  the gate is consulted at all.
GateDemanded(tcfg) == tcfg.enabled /\ ~tcfg.bypass_market_hours

\* ---------------------------------------------------------- delta, decision
\* Mutant of DeltaPct: the change is taken relative to the last price.
DeltaPct_OverLast(open, last) == ((last - open) * 100) \div last

\* core.py:314  ((last_p - open_p) / open_p) * 100.0, for open_p # 0.  The
\* frames above are chosen so that the quotient is a whole number.
DeltaPct(open, last) == ((last - open) * 100) \div open

\* Mutant of ApplyOverride: the injected delta is used whether or not the test
\* mode is enabled.
ApplyOverride_IgnoresEnabled(tcfg, delta) ==
    IF tcfg.force_delta_pct # << >> THEN tcfg.force_delta_pct[1] ELSE delta

\* core.py:321-322  the test override of the delta.
ApplyOverride(tcfg, delta) ==
    IF tcfg.enabled /\ tcfg.force_delta_pct # << >>
    THEN tcfg.force_delta_pct[1]
    ELSE delta

\* Mutant of Direction: the comparisons are strict.
Direction_Strict(delta, threshold) ==
    IF delta > threshold THEN "up"
    ELSE IF delta < -threshold THEN "down"
    ELSE "none"

\* core.py:324  the threshold decision.
Direction(delta, threshold) ==
    IF delta >= threshold THEN "up"
    ELSE IF delta <= -threshold THEN "down"
    ELSE "none"

\* Mutant of Suppressed: the comparison with the record is lost.
Suppressed_OnlyNone(rec, symbol, dir) == dir = "none"

\* core.py:329-333  skip if below threshold or duplicate.
Suppressed(rec, symbol, dir) ==
    IF dir = "none" THEN TRUE
    ELSE IF Get(rec, symbol) = dir THEN TRUE
    ELSE FALSE

\* ------------------------------------------------------------- the message
\* Mutant of Arrow: a delta of zero gets the down arrow.
Arrow_Strict(delta) == IF delta > 0 THEN "green up" ELSE "red down"

\* core.py:357  the arrow.
Arrow(delta) == IF delta >= 0 THEN "green up" ELSE "red down"

\* The format specifications ":.2f" and ":.4f" of core.py:361-363 on a whole
\* number: a sign, the digits before the point and `places` zeros after it.
Fixed(x, places) ==
    [sign |-> IF x < 0 THEN "-" ELSE "",
     whole |-> IF x < 0 THEN -x ELSE x,
     frac |-> [k \in 1..places |-> 0]]

\* core.py:361  the first line of the body: arrow, ticker and the delta with
\* two decimals and a percent sign (" delta=" stands for the Greek letter and
\* the equals sign of the source).
HeadLine(symbol, delta) ==
    << Arrow(delta), " ", symbol, " delta=", Fixed(delta, 2), "% vs. Open" >>

\* core.py:357-371  the body: arrow, ticker, delta, open, last and, when there
\* are headlines, the news block; text holds the three lines as they are
\* printed.
FormatBody(symbol, delta, open, last, headlines) ==
    [arrow |-> Arrow(delta), symbol |-> symbol, delta |-> delta,
     open |-> open, last |-> last, news |-> headlines,
     text |-> << HeadLine(symbol, delta),
                 << "Open: ", Fixed(open, 4) >>,
                 << "Last: ", Fixed(last, 4) >> >>]

\* What the POST of notify_ntfy can do: answer 2xx; answer an error status
\* (raise_for_status raises HTTPError); fail in transport (ConnectionError,
\* Timeout); raise something that is no requests.RequestException.
PostResults == {"2xx", "status_error", "transport_error", "other_exception"}

\* The ntfy topics run_once is called with, as sequences of characters: never
\* empty (load_config rejects an unset topic).
Topics == { << "k" >>, << "t", "o", "p", "i", "c" >> }

\* utils.py:6-17  mask_secret with keep = 1: first and last character around an
\* ellipsis; a string of one character comes back as it is.
mask_secret(s) ==
    IF s = << >> THEN << "(unset)" >>
    ELSE IF Len(s) > 1 THEN << s[1], "...", s[Len(s)] >>
    ELSE s

\* core.py:380  the title of an alert.
Title(symbol) == << "Stock Alert: ", symbol >>

\* ntfy.py:53-61  the log record of a dry run.
DryRunLog(topic, title, message) ==
    [level |-> "INFO", text |-> "DRY-RUN ntfy", topic |-> mask_secret(topic),
     title |-> title, msg |-> message]

\* ntfy.py:65  the URL the POST goes to: the server, a slash, the topic.
Url(topic) == << "https://ntfy.sh", "/" >> \o topic

\* ntfy.py:84, 86  the log record after the POST: the URL is logged as it is.
PostLog(level, text, topic) == [level |-> level, text |-> text, url |-> Url(topic)]

\* ntfy.py:52-86  the log records of one notify_ntfy call whose outcome is r.
NotifyLog(r, topic, title, message) ==
    IF "INFO DRY-RUN ntfy" \in r.logs
    THEN << DryRunLog(topic, title, message) >>
    ELSE IF "DEBUG ntfy POST success" \in r.logs
    THEN << PostLog("DEBUG", "ntfy POST success to", topic) >>
    ELSE IF "WARNING ntfy POST failed" \in r.logs
    THEN << PostLog("WARNING", "ntfy POST failed to", topic) >>
    ELSE << >>

\* Mutant of notify_ntfy: the dry_run flag is not looked at.
notify_ntfy_IgnoresDryRun(dry_run, post) ==
    IF post = "2xx"
    THEN [posted |-> TRUE, delivered |-> TRUE, raised |-> FALSE,
          logs |-> {"DEBUG ntfy POST success"}]
    ELSE IF post \in {"status_error", "transport_error"}
    THEN [posted |-> TRUE, delivered |-> FALSE, raised |-> FALSE,
          logs |-> {"WARNING ntfy POST failed"}]
    ELSE [posted |-> TRUE, delivered |-> FALSE, raised |-> TRUE, logs |-> {}]

\* ntfy.py:12-89  notify_ntfy: in dry-run nothing is sent; a RequestException is
\* caught and logged inside, anything else propagates to the caller.
\*   posted: an HTTP request was made;  delivered: the server accepted it;
\*   raised: an exception left notify_ntfy.
notify_ntfy(dry_run, post) ==
    IF dry_run
    THEN [posted |-> FALSE, delivered |-> FALSE, raised |-> FALSE,
          logs |-> {"INFO DRY-RUN ntfy"}]
    ELSE IF post = "2xx"
    THEN [posted |-> TRUE, delivered |-> TRUE, raised |-> FALSE,
          logs |-> {"DEBUG ntfy POST success"}]
    ELSE IF post \in {"status_error", "transport_error"}
    THEN [posted |-> TRUE, delivered |-> FALSE, raised |-> FALSE,
          logs |-> {"WARNING ntfy POST failed"}]
    ELSE [posted |-> TRUE, delivered |-> FALSE, raised |-> TRUE, logs |-> {}]

\* What the enrichment (auto_keywords, fetch_headlines, filter_titles,
\* _format_headlines) can do: raise, find nothing, or give a headline block.
EnrichResults == {"raised", "empty", "headlines"}

\* ---------------------------------------------------------------------
\* config.py: DEFAULTS, deep_merge, load_config.
\* Python dicts are objects: a heap maps the identity of a dict (a path of
\* names) to its items, and an item is a plain value or a reference to a dict.
Val(x) == [isdict |-> FALSE, val |-> x]
Ref(id) == [isdict |-> TRUE, ref |-> id]

\* A dict with no items.
NoItems == [k \in {} |-> Val("")]

\* config.py:8-36  DEFAULTS with the sections load_config writes to or
\* validates: log (level), ntfy (server, topic), tickers.
DefaultsHeap ==
    ( << "DEFAULTS" >> :> [log |-> Ref(<< "DEFAULTS", "log" >>),
                           ntfy |-> Ref(<< "DEFAULTS", "ntfy" >>),
                           tickers |-> Val(<< "AAPL" >>)] )
    @@ ( << "DEFAULTS", "log" >> :> [level |-> Val("INFO")] )
    @@ ( << "DEFAULTS", "ntfy" >> :> [server |-> Val("https://ntfy.sh"),
                                      topic |-> Val("CHANGE-ME")] )

\* The sections of a config.json: each is absent (<< >>) or there (<< items >>).
LogSections == { << >>, << NoItems >>, << [level |-> Val("DEBUG")] >> }
NtfySections ==
    { << >>, << [topic |-> Val("secret")] >>,
      << [server |-> Val("https://my.ntfy"), topic |-> Val("secret")] >> }
TickerSections == { << >>, << Val(<< >>) >>, << Val(<< "SAP.DE" >>) >> }

\* json.loads of a config.json with these sections: the dict "user" and its
\* nested dicts.
UserHeap(l, n, t) ==
    LET keys == (IF l # << >> THEN {"log"} ELSE {})
                \cup (IF n # << >> THEN {"ntfy"} ELSE {})
                \cup (IF t # << >> THEN {"tickers"} ELSE {})
        root == [k \in keys |-> IF k = "log" THEN Ref(<< "user", "log" >>)
                                ELSE IF k = "ntfy" THEN Ref(<< "user", "ntfy" >>)
                                ELSE t[1]]
    IN  ( << "user" >> :> root )
        @@ (IF l # << >> THEN << "user", "log" >> :> l[1] ELSE << "user", "none" >> :> NoItems)
        @@ (IF n # << >> THEN << "user", "ntfy" >> :> n[1] ELSE << "user", "none" >> :> NoItems)

\* config.py:70-76  what load_config finds at path: no file (user = {}), a
\* file that is not JSON, or a JSON object.
ConfigFiles ==
    { [kind |-> "absent", user |-> (<< "user" >> :> NoItems)],
      [kind |-> "garbage", user |-> (<< "user" >> :> NoItems)] }
    \cup { [kind |-> "json", user |-> UserHeap(l, n, t)] :
             l \in LogSections, n \in NtfySections, t \in TickerSections }

\* config.py:82-87  the environment: each variable unset (<< >>) or set.
Envs ==
    [LOG_LEVEL : { << >>, << "WARNING" >> },
     NTFY_SERVER : { << >>, << "https://env.ntfy" >> },
     NTFY_TOPIC : { << >>, << "envtopic" >> }]

\* d[k] = v on the dict with identity id.
SetItem(H, id, k, v) ==
    [H EXCEPT ![id] = [x \in (DOMAIN H[id]) \cup {k} |-> IF x = k THEN v ELSE H[id][x]]]

RECURSIVE deep_merge(_, _, _, _)
RECURSIVE MergeItems(_, _, _, _)

\* config.py:46-50  the loop over override.items(): a dict over a dict is
\* merged into a new dict, everything else is put into out as it is.
MergeItems(H, out, override, keys) ==
    IF keys = {} THEN H
    ELSE LET k == CHOOSE x \in keys : TRUE
             v == H[override][k]
             H1 == IF v.isdict /\ k \in DOMAIN H[out] /\ H[out][k].isdict
                   THEN SetItem(deep_merge(H, H[out][k].ref, v.ref, Append(out, k)),
                                out, k, Ref(Append(out, k)))
                   ELSE SetItem(H, out, k, v)
         IN  MergeItems(H1, out, override, keys \ {k})

\* config.py:38-53  deep_merge(base, override): out = dict(base) is a new
\* dict with the items of base, its nested dicts are the dicts of base.
deep_merge(H, base, override, out) ==
    MergeItems((out :> H[base]) @@ H, out, override, DOMAIN H[override])

\* The dicts of DEFAULTS in a heap.
DefaultsOf(H) == [id \in DOMAIN DefaultsHeap |-> H[id]]

RECURSIVE Deref(_, _)
\* The dict with identity id as a value, nested dicts included.
Deref(H, id) ==
    [k \in DOMAIN H[id] |-> IF H[id][k].isdict THEN Deref(H, H[id][k].ref) ELSE H[id][k].val]

\* config.py:82-87  cfg[section][key] = os.getenv(name) when it is set.
EnvOverride(H, got, section, key) ==
    IF got # << >> THEN SetItem(H, H[<< "cfg" >>][section].ref, key, Val(got[1])) ELSE H

\* config.py:57-100  load_config: the heap after the call (DEFAULTS is what
\* the module keeps of it), whether it raised, and the dict it returned.
load_config(defaults, f, env) ==
    IF f.kind = "garbage"
    THEN [heap |-> defaults, raised |-> "config.json could not be read", cfg |-> NoItems]
    ELSE LET H1 == deep_merge(f.user @@ defaults, << "DEFAULTS" >>, << "user" >>, << "cfg" >>)
             H2 == EnvOverride(H1, env.LOG_LEVEL, "log", "level")
             H3 == EnvOverride(H2, env.NTFY_SERVER, "ntfy", "server")
             H4 == EnvOverride(H3, env.NTFY_TOPIC, "ntfy", "topic")
             cfg == Deref(H4, << "cfg" >>)
         IN  [heap |-> H4,
              raised |-> IF cfg.ntfy.topic \in {"", "CHANGE-ME"}
                         THEN "Please set a secret ntfy topic"
                         ELSE IF cfg.tickers = << >>
                         THEN "config.tickers must not be empty"
                         ELSE "no",
              cfg |-> IF cfg.ntfy.topic \in {"", "CHANGE-ME"} \/ cfg.tickers = << >>
                      THEN NoItems ELSE cfg]

\* ------------------------------------------------------------------ state
VARIABLES
    file,            \* the state file on disk
    pc,              \* where run_once stands; "idle" between calls
    exit,            \* how the last call ended: "none", "gate", "finished", "raised"
    tickers,         \* run_once arguments
    threshold_pct,
    test_cfg,
    news_cfg,
    state,           \* run_once: the alert-state record in memory
    i,               \* run_once: index of the ticker being processed
    interval,        \* get_open_and_last: index of the intraday interval
    attempt,         \* get_open_and_last: the try within the interval (0-based)
    calls,           \* provider calls made by the running get_open_and_last
    open_p,          \* run_once locals
    last_p,
    delta_pct,
    direction,
    headlines_text,
    sent,            \* notify_ntfy calls made by the running/last call
    did,             \* which of "load", "fetch", "save" the running/last call did
    ev,              \* what the last step did
    logged,          \* the log records the last step emitted
    chain,           \* per ticker: its last alert and what happened since
    history,         \* what this behaviour watches (it never changes): "off",
                     \* every ticker list; "ticker", the lists of one ticker;
                     \* "chain", those lists and the alert history in chain
    runs,            \* two run_once calls on one state file (SpecOverlap only)
    DEFAULTS         \* config.py:8-36, the module-level dict and its nested dicts

args == << tickers, threshold_pct, test_cfg, news_cfg >>
ladder == << interval, attempt, calls >>
locals == << open_p, last_p, delta_pct, direction, headlines_text >>
vars == << file, pc, exit, tickers, threshold_pct, test_cfg, news_cfg,
           state, i, interval, attempt, calls, open_p, last_p, delta_pct,
           direction, headlines_text, sent, did, ev, logged, chain, history, runs, DEFAULTS >>

\* The ticker of the running iteration ("for symbol in tickers").
symbol == tickers[i]

\* No notify_ntfy call was made yet in this cycle.
NoCall == [symbol |-> None, dir |-> None, raised |-> FALSE]

\* The last notify_ntfy call of the running cycle: its ticker, its direction
\* and whether it raised (core.py:376-388).
LastCall ==
    IF ev.kind = "notify"
    THEN [symbol |-> ev.at.symbol, dir |-> ev.dir, raised |-> ev.result.raised]
    ELSE IF "at" \in DOMAIN ev THEN ev.at.last
    ELSE NoCall

\* What a step found when it began: the ticker, its index in the list, its entry
\* in the record, the whole record and the notify_ntfy calls made so far.
Before ==
    [symbol |-> symbol, index |-> i, prior |-> Get(state, symbol),
     record |-> state, sent |-> sent, file |-> file, last |-> LastCall]

\* History of a ticker's last alert (kept for the claims, read by no step; kept
\* only in the behaviours of SpecHistory, which watch a single ticker):
\*   dir   the direction of the last alert notify_ntfy returned from, or None;
\*   dead  whether the threshold decision said "none" for the ticker since:
\*         "no", "now" (in the running call), "past" (in a call that has ended);
\*   ok    no save_state since that alert failed to write the file;
\*   got   the direction of the last alert that was delivered (accepted by the
\*         server, or a dry run), as long as every call since that delivery
\*         ended with the file written; None otherwise;
\*   how   what the notify_ntfy call of the last alert did: "posted" (accepted
\*         by the server), "dry" (a dry run) or "failed" (the POST failed).
NoChain == [dir |-> None, dead |-> "no", ok |-> FALSE, got |-> None, how |-> None]

ChainAlerted(c, dir, how) ==
    [dir |-> dir, dead |-> "no", ok |-> TRUE,
     got |-> IF how # "failed" THEN dir ELSE c.got,
     how |-> how]

ChainNone(c) ==
    IF c.dir # None /\ c.dead = "no" THEN [c EXCEPT !.dead = "now"] ELSE c

ChainCallEnds(c, written) ==
    IF c.dir = None THEN c
    ELSE [c EXCEPT !.dead = IF c.dead = "now" THEN "past" ELSE c.dead,
                   !.ok = c.ok /\ written,
                   !.got = IF written THEN c.got ELSE None]

\* Two run_once calls on the same state file (two timers, two processes), each
\* seen at the steps that touch what they share: load_state, a notify_ntfy call
\* that returned with the record updated, save_state.  Of a call:
\*   pc      "idle" (not running; the fields are those of its last run), "loop";
\*   loaded  what load_state gave it;       rec    its record in memory;
\*   n       the alerts it sent;             alerts their (ticker, direction);
\*   saved   what its save_state did: "none" while it runs.
\* together: the last runs of the two calls overlapped in time.
\* last: the direction of the last alert either call sent, whether the two
\* calls have run apart (never at the same time) since it was sent, and
\* whether every save_state since wrote the file.
Invocations == {1, 2}

NoRun == [pc |-> "idle", loaded |-> EmptyDict, rec |-> EmptyDict, n |-> 0,
          alerts |-> {}, saved |-> "none"]

NoRuns == [of |-> [p \in Invocations |-> NoRun], together |-> FALSE,
           last |-> [dir |-> None, apart |-> FALSE, kept |-> FALSE]]

\* Values of names that are not bound (before a call, after its return) or are
\* dead (a local that is assigned again before it is next read).
NoTestCfg == [enabled |-> FALSE, bypass_market_hours |-> FALSE,
              force_delta_pct |-> << >>, dry_run |-> FALSE]
NoNewsCfg == [isNone |-> FALSE, enabled |-> FALSE]

NoArgs ==
    /\ tickers' = << >>
    /\ threshold_pct' = 0
    /\ test_cfg' = NoTestCfg
    /\ news_cfg' = NoNewsCfg

NoLadder ==
    /\ interval' = 0
    /\ attempt' = 0
    /\ calls' = << >>

NoLocals ==
    /\ open_p' = 0
    /\ last_p' = 0
    /\ delta_pct' = 0
    /\ direction' = None
    /\ headlines_text' = None

\* The ticker lists of a behaviour.
TickerListsOf(h) ==
    IF h # "off" THEN { s \in TickerLists : \A k \in DOMAIN s : s[k] = "AAPL" }
    ELSE TickerLists

StartBut ==
    /\ file = AbsentFile
    /\ pc = "idle"
    /\ exit = "none"
    /\ tickers = << >>
    /\ threshold_pct = 0
    /\ test_cfg = NoTestCfg
    /\ news_cfg = NoNewsCfg
    /\ state = EmptyDict
    /\ i = 0
    /\ interval = 0
    /\ attempt = 0
    /\ calls = << >>
    /\ open_p = 0
    /\ last_p = 0
    /\ delta_pct = 0
    /\ direction = None
    /\ headlines_text = None
    /\ sent = 0
    /\ did = {}
    /\ logged = {}
    /\ chain = [t \in Tickers |-> NoChain]
    /\ runs = NoRuns
    /\ DEFAULTS = DefaultsHeap

Start ==
    /\ StartBut
    /\ ev = [kind |-> "init"]

Init ==
    /\ Start
    /\ history = "off"

InitHistory ==
    /\ Start
    /\ history = "chain"

InitLive ==
    /\ Start
    /\ history = "ticker"

\* The positions of run_once inside the loop over the tickers.
InLoop == pc \in {"intraday", "daily", "daily5", "delta", "debounce", "enrich", "deliver"}

\* run_once returns or is left by an exception: its arguments and locals are gone.
Return(how) ==
    /\ pc' = "idle"
    /\ exit' = how
    /\ NoArgs
    /\ state' = EmptyDict
    /\ i' = 0
    /\ NoLadder
    /\ NoLocals

\* "continue", and the end of the loop body: on to the next ticker, where
\* get_open_and_last starts at its first interval; after the last ticker the
\* loop ends and run_once stands before save_state.
NextTicker ==
    /\ i' = i + 1
    /\ pc' = IF i + 1 > Len(tickers) THEN "persist" ELSE "intraday"
    /\ interval' = IF i + 1 > Len(tickers) THEN 0 ELSE 1
    /\ attempt' = 0
    /\ calls' = << >>
    /\ NoLocals

\* -------------------------------------------------------------- run_once
\* core.py:296-303  run_once is called while the gate is demanded and the market
\* is closed: it logs and returns.
GateClosed ==
    /\ pc = "idle"
    /\ \E tc \in TestCfgs, mh \in MarketHoursCfgs, now \in Nows :
          /\ GateDemanded(tc)
          /\ ~is_market_hours(mh, now)
          /\ ev' = [kind |-> "gate", test_cfg |-> tc, asked |-> TRUE, open |-> FALSE,
                    file |-> file]
    /\ Return("gate")
    /\ sent' = 0
    /\ did' = {}
    /\ logged' = {"INFO Monitoring cycle started", "INFO Outside market hours"}
    /\ UNCHANGED << chain, history, runs, DEFAULTS, file >>

\* core.py:296-303  run_once is called and passes the gate: the gate is not
\* demanded, or the market is open.  In the record of the step, asked says
\* whether is_market_hours was called and open what the market clock shows.
GatePassed ==
    /\ pc = "idle"
    /\ \E tl \in TickerListsOf(history), th \in Thresholds, tc \in TestCfgs, nc \in NewsCfgs,
          mh \in MarketHoursCfgs, now \in Nows :
          /\ ~(GateDemanded(tc) /\ ~is_market_hours(mh, now))
          /\ tickers' = tl
          /\ threshold_pct' = th
          /\ test_cfg' = tc
          /\ news_cfg' = nc
          /\ ev' = [kind |-> "gate", test_cfg |-> tc, asked |-> GateDemanded(tc),
                    open |-> is_market_hours(mh, now), file |-> file]
    /\ pc' = "load"
    /\ exit' = "none"
    /\ sent' = 0
    /\ did' = {}
    /\ logged' = {"INFO Monitoring cycle started"}
    /\ UNCHANGED << chain, history, runs, DEFAULTS, file, state, i, ladder, locals >>

\* core.py:305-311  load_state, then the loop starts at the first ticker.
LoadState ==
    /\ pc = "load"
    /\ LET r == load_state(file) IN
          /\ state' = r.value
          /\ logged' = r.logs
    /\ i' = 1
    /\ pc' = "intraday"
    /\ interval' = 1
    /\ attempt' = 0
    /\ calls' = << >>
    /\ did' = did \cup {"load"}
    /\ ev' = [kind |-> "loaded"]
    /\ UNCHANGED << chain, history, runs, DEFAULTS, file, exit, args, locals, sent >>

\* ------------------------------------------------------ get_open_and_last
\* The log of a try that gave nothing usable: market.py:42-45 or 47-50.
MissLog(r) ==
    IF r.raised THEN {"WARNING Intraday fetch error"} ELSE {"DEBUG No intraday data"}

\* market.py:22-40  a try on the current interval returns a usable frame:
\* get_open_and_last returns (first open, last close) to run_once.
IntradayHit ==
    /\ pc = "intraday"
    /\ \E r \in ProviderResponses :
          /\ ~r.raised /\ Usable(r.df)
          /\ open_p' = IntradayPrices(r.df)[1]
          /\ last_p' = IntradayPrices(r.df)[2]
          /\ ev' = [kind |-> "fetched", at |-> Before, df |-> r.df]
    /\ calls' = Append(calls, << "1d", Intervals[interval] >>)
    /\ pc' = "delta"
    /\ did' = did \cup {"fetch"}
    /\ logged' = {"DEBUG Intraday"}
    /\ UNCHANGED << chain, history, runs, DEFAULTS, file, exit, args, state, i, interval, attempt,
                    delta_pct, direction, headlines_text, sent >>

\* Mutant of IntradayMiss: an interval is tried three times before the next one.
IntradayMiss_ThreeTries ==
    /\ pc = "intraday"
    /\ \E r \in ProviderResponses :
          /\ r.raised \/ ~Usable(r.df)
          /\ logged' = MissLog(r)
          /\ ev' = [kind |-> "miss", at |-> Before, response |-> r]
    /\ calls' = Append(calls, << "1d", Intervals[interval] >>)
    /\ IF attempt + 1 < Tries + 1
       THEN /\ attempt' = attempt + 1
            /\ UNCHANGED << interval, pc >>
       ELSE IF interval < Len(Intervals)
       THEN /\ interval' = interval + 1
            /\ attempt' = 0
            /\ UNCHANGED pc
       ELSE /\ interval' = 0
            /\ attempt' = 0
            /\ pc' = "daily"
    /\ did' = did \cup {"fetch"}
    /\ UNCHANGED << chain, history, runs, DEFAULTS, file, exit, args, state, i, locals, sent >>

\* Mutant of IntradayMiss: a failed try is repeated without being counted.
IntradayMiss_Uncounted ==
    /\ pc = "intraday"
    /\ \E r \in ProviderResponses :
          /\ r.raised \/ ~Usable(r.df)
          /\ logged' = MissLog(r)
          /\ ev' = [kind |-> "miss", at |-> Before, response |-> r]
    /\ did' = did \cup {"fetch"}
    /\ UNCHANGED << chain, history, runs, DEFAULTS, file, exit, args, state, i, ladder, locals,
                    sent, pc >>

\* market.py:25-52  a try raises or returns an empty or malformed frame: it is
\* logged, and after the sleep the next try, the next interval or, after the
\* last interval, the daily fallback follows.
IntradayMiss ==
    /\ pc = "intraday"
    /\ \E r \in ProviderResponses :
          /\ r.raised \/ ~Usable(r.df)
          /\ logged' = MissLog(r)
          /\ ev' = [kind |-> "miss", at |-> Before, response |-> r]
    /\ calls' = Append(calls, << "1d", Intervals[interval] >>)
    /\ IF attempt + 1 < Tries
       THEN /\ attempt' = attempt + 1
            /\ UNCHANGED << interval, pc >>
       ELSE IF interval < Len(Intervals)
       THEN /\ interval' = interval + 1
            /\ attempt' = 0
            /\ UNCHANGED pc
       ELSE /\ interval' = 0
            /\ attempt' = 0
            /\ pc' = "daily"
    /\ did' = did \cup {"fetch"}
    /\ UNCHANGED << chain, history, runs, DEFAULTS, file, exit, args, state, i, locals, sent >>

\* Mutant of DailyHit: the usable 1-day frame is passed over and the 5-day
\* fetch is tried.
DailyHit_FallsThrough ==
    /\ pc = "daily"
    /\ \E r \in ProviderResponses :
          /\ ~r.raised /\ Usable(r.df)
          /\ ev' = [kind |-> "miss", at |-> Before, response |-> r]
    /\ calls' = Append(calls, << "1d", "1d" >>)
    /\ pc' = "daily5"
    /\ did' = did \cup {"fetch"}
    /\ logged' = {"WARNING Primary daily fallback empty"}
    /\ UNCHANGED << chain, history, runs, DEFAULTS, file, exit, args, state, i, interval, attempt,
                    locals, sent >>

\* market.py:55-64  the 1-day daily fetch returns a usable frame.
DailyHit ==
    /\ pc = "daily"
    /\ \E r \in ProviderResponses :
          /\ ~r.raised /\ Usable(r.df)
          /\ open_p' = DailyPrices(r.df)[1]
          /\ last_p' = DailyPrices(r.df)[2]
          /\ ev' = [kind |-> "fetched", at |-> Before, df |-> r.df]
    /\ calls' = Append(calls, << "1d", "1d" >>)
    /\ pc' = "delta"
    /\ did' = did \cup {"fetch"}
    /\ logged' = {"DEBUG Fallback daily data"}
    /\ UNCHANGED << chain, history, runs, DEFAULTS, file, exit, args, state, i, interval, attempt,
                    delta_pct, direction, headlines_text, sent >>

\* Mutant of DailyMiss: the miss of the 1-day fetch is not caught inside
\* get_open_and_last; it reaches run_once, which skips the ticker, and the
\* 5-day fetch is never tried.
DailyMiss_Raises ==
    /\ pc = "daily"
    /\ \E r \in ProviderResponses : r.raised \/ ~Usable(r.df)
    /\ ev' = [kind |-> "skipped", at |-> Before, error |-> NoDataError(symbol),
              calls |-> Append(calls, << "1d", "1d" >>)]
    /\ logged' = {"WARNING Could not fetch prices"}
    /\ did' = did \cup {"fetch"}
    /\ NextTicker
    /\ UNCHANGED << chain, history, runs, DEFAULTS, file, exit, args, state, sent >>

\* market.py:55-69  the 1-day daily fetch raises or gives nothing usable: logged,
\* the 5-day fetch is next.
DailyMiss ==
    /\ pc = "daily"
    /\ \E r \in ProviderResponses :
          /\ r.raised \/ ~Usable(r.df)
          /\ logged' = IF r.raised THEN {"WARNING Fallback daily fetch failed"}
                                   ELSE {"WARNING Primary daily fallback empty"}
          /\ ev' = [kind |-> "miss", at |-> Before, response |-> r]
    /\ calls' = Append(calls, << "1d", "1d" >>)
    /\ pc' = "daily5"
    /\ did' = did \cup {"fetch"}
    /\ UNCHANGED << chain, history, runs, DEFAULTS, file, exit, args, state, i, interval, attempt,
                    locals, sent >>

\* Mutant of Daily5Hit: the prices are read from the oldest of the five days.
Daily5Hit_OldestDay ==
    /\ pc = "daily5"
    /\ \E r \in ProviderResponses :
          /\ ~r.raised /\ Usable(r.df)
          /\ open_p' = r.df.rows[1].Open
          /\ last_p' = r.df.rows[1].Close
          /\ ev' = [kind |-> "fetched", at |-> Before, df |-> r.df]
    /\ calls' = Append(calls, << "5d", "1d" >>)
    /\ pc' = "delta"
    /\ did' = did \cup {"fetch"}
    /\ logged' = {"DEBUG Fallback 5-day data"}
    /\ UNCHANGED << chain, history, runs, DEFAULTS, file, exit, args, state, i, interval, attempt,
                    delta_pct, direction, headlines_text, sent >>

\* market.py:72-81  the 5-day daily fetch returns a usable frame.
Daily5Hit ==
    /\ pc = "daily5"
    /\ \E r \in ProviderResponses :
          /\ ~r.raised /\ Usable(r.df)
          /\ open_p' = DailyPrices(r.df)[1]
          /\ last_p' = DailyPrices(r.df)[2]
          /\ ev' = [kind |-> "fetched", at |-> Before, df |-> r.df]
    /\ calls' = Append(calls, << "5d", "1d" >>)
    /\ pc' = "delta"
    /\ did' = did \cup {"fetch"}
    /\ logged' = {"DEBUG Fallback 5-day data"}
    /\ UNCHANGED << chain, history, runs, DEFAULTS, file, exit, args, state, i, interval, attempt,
                    delta_pct, direction, headlines_text, sent >>

\* Mutant of Daily5Miss: run_once does not catch the RuntimeError, which ends
\* the loop and leaves run_once.
Daily5Miss_Aborts ==
    /\ pc = "daily5"
    /\ \E r \in ProviderResponses : r.raised \/ ~Usable(r.df)
    /\ ev' = [kind |-> "skipped", at |-> Before, error |-> NoDataError(symbol),
              calls |-> Append(calls, << "5d", "1d" >>)]
    /\ logged' = {"ERROR Second fallback (5d) fetch failed"}
    /\ did' = did \cup {"fetch"}
    /\ Return("raised")
    /\ UNCHANGED << chain, history, runs, DEFAULTS, file, sent >>
\* Mutant of Daily5Miss: with the test override active a ticker whose fetch
\* failed in every tier goes on to the decision with the forced delta.
Daily5Miss_ForcedAnyway ==
    /\ pc = "daily5"
    /\ \E r \in ProviderResponses : r.raised \/ ~Usable(r.df)
    /\ did' = did \cup {"fetch"}
    /\ IF test_cfg.enabled /\ test_cfg.force_delta_pct # << >>
       THEN /\ delta_pct' = test_cfg.force_delta_pct[1]
            /\ direction' = Direction(test_cfg.force_delta_pct[1], threshold_pct)
            /\ pc' = "debounce"
            /\ NoLadder
            /\ ev' = [kind |-> "decided", at |-> Before]
            /\ logged' = {"INFO delta"}
            /\ UNCHANGED << i, open_p, last_p, headlines_text >>
       ELSE /\ ev' = [kind |-> "skipped", at |-> Before, error |-> NoDataError(symbol),
                      calls |-> Append(calls, << "5d", "1d" >>)]
            /\ logged' = {"ERROR Second fallback (5d) fetch failed",
                          "WARNING Could not fetch prices"}
            /\ NextTicker
    /\ UNCHANGED << chain, history, runs, DEFAULTS, file, exit, args, state, sent >>

\* market.py:72-87 and core.py:312-317  the 5-day fetch raises or gives nothing
\* usable: get_open_and_last raises its RuntimeError, run_once catches it, logs
\* a warning and continues with the next ticker.
Daily5Miss ==
    /\ pc = "daily5"
    /\ \E r \in ProviderResponses : r.raised \/ ~Usable(r.df)
    /\ ev' = [kind |-> "skipped", at |-> Before, error |-> NoDataError(symbol),
              calls |-> Append(calls, << "5d", "1d" >>)]
    /\ logged' = {"ERROR Second fallback (5d) fetch failed",
                  "WARNING Could not fetch prices"}
    /\ did' = did \cup {"fetch"}
    /\ NextTicker
    /\ UNCHANGED << chain, history, runs, DEFAULTS, file, exit, args, state, sent >>
\* Mutant of DeltaFails: the division error is not caught and leaves run_once.
DeltaFails_Aborts ==
    /\ pc = "delta"
    /\ open_p = 0
    /\ ev' = [kind |-> "skipped", at |-> Before,
              error |-> [type |-> "ZeroDivisionError", msg |-> "float division by zero",
                         ticker |-> None],
              calls |-> calls]
    /\ logged' = {}
    /\ Return("raised")
    /\ UNCHANGED << chain, history, runs, DEFAULTS, file, sent, did >>

\* ------------------------------------------------- run_once, per ticker
\* core.py:314-317  the opening price is 0: the division raises
\* ZeroDivisionError inside the try, which is caught like a failed fetch.
DeltaFails ==
    /\ pc = "delta"
    /\ open_p = 0
    /\ ev' = [kind |-> "skipped", at |-> Before,
              error |-> [type |-> "ZeroDivisionError", msg |-> "float division by zero",
                         ticker |-> None],
              calls |-> calls]
    /\ logged' = {"WARNING Could not fetch prices"}
    /\ NextTicker
    /\ UNCHANGED << chain, history, runs, DEFAULTS, file, exit, args, state, sent, did >>

\* core.py:314-325  delta, test override, threshold decision.
Decide ==
    /\ pc = "delta"
    /\ open_p # 0
    /\ LET d == ApplyOverride(test_cfg, DeltaPct(open_p, last_p)) IN
          /\ delta_pct' = d
          /\ direction' = Direction(d, threshold_pct)
    /\ pc' = "debounce"
    /\ NoLadder
    /\ ev' = [kind |-> "decided", at |-> Before]
    /\ logged' = {"INFO delta"}
    /\ UNCHANGED << chain, history, runs, DEFAULTS, file, exit, args, state, i, open_p, last_p,
                    headlines_text, sent, did >>

\* Mutant of Suppress: the decision is stored before it is looked at, so a
\* decision of none overwrites the entry of the ticker.
Suppress_StoresNone ==
    /\ pc = "debounce"
    /\ Suppressed(state, symbol, direction)
    /\ ev' = [kind |-> "debounce", at |-> Before, dir |-> direction,
              chain |-> chain[symbol]]
    /\ logged' = {}
    /\ chain' = IF history = "chain" /\ direction = "none"
                THEN [chain EXCEPT ![symbol] = ChainNone(chain[symbol])]
                ELSE chain
    /\ state' = IF direction = "none" THEN Put(state, symbol, "none") ELSE state
    /\ NextTicker
    /\ UNCHANGED << file, exit, args, sent, did, history, runs, DEFAULTS >>

\* core.py:329-333  below the threshold, or the direction already alerted:
\* continue with the next ticker.
Suppress ==
    /\ pc = "debounce"
    /\ Suppressed(state, symbol, direction)
    /\ ev' = [kind |-> "debounce", at |-> Before, dir |-> direction,
              chain |-> chain[symbol]]
    /\ logged' = IF direction = "none" THEN {} ELSE {"DEBUG Skipping duplicate alert"}
    /\ chain' = IF history = "chain" /\ direction = "none"
                THEN [chain EXCEPT ![symbol] = ChainNone(chain[symbol])]
                ELSE chain
    /\ NextTicker
    /\ UNCHANGED << file, exit, args, state, sent, did, history, runs, DEFAULTS >>

\* core.py:329-337  an alert is due: on to the news.
Alert ==
    /\ pc = "debounce"
    /\ ~Suppressed(state, symbol, direction)
    /\ ev' = [kind |-> "debounce", at |-> Before, dir |-> direction,
              chain |-> chain[symbol]]
    /\ logged' = {}
    /\ pc' = "enrich"
    /\ UNCHANGED << chain, history, runs, DEFAULTS, file, exit, args, state, i, ladder, locals, sent, did >>

\* core.py:338  news_cfg is None: news_cfg.get raises AttributeError outside any
\* try, and the exception leaves run_once.
EnrichNone ==
    /\ pc = "enrich"
    /\ news_cfg.isNone
    /\ ev' = [kind |-> "raised", at |-> Before, dir |-> direction,
              error |-> "AttributeError", tickers |-> tickers]
    /\ logged' = {}
    /\ chain' = [t \in Tickers |-> ChainCallEnds(chain[t], TRUE)]
    /\ Return("raised")
    /\ UNCHANGED << file, sent, did, history, runs, DEFAULTS >>

\* core.py:337-338  news is not enabled: no headlines.
EnrichOff ==
    /\ pc = "enrich"
    /\ ~news_cfg.isNone
    /\ ~news_cfg.enabled
    /\ headlines_text' = ""
    /\ pc' = "deliver"
    /\ ev' = [kind |-> "enriched", at |-> Before, result |-> "off"]
    /\ logged' = {}
    /\ UNCHANGED << chain, history, runs, DEFAULTS, file, exit, args, state, i, ladder, open_p, last_p,
                    delta_pct, direction, sent, did >>

\* Mutant of EnrichOn: an exception of the enrichment is caught around the
\* whole loop body, so the ticker is skipped without an alert.
EnrichOn_SkipsAlert ==
    /\ pc = "enrich"
    /\ ~news_cfg.isNone
    /\ news_cfg.enabled
    /\ \E r \in EnrichResults :
          /\ headlines_text' = IF r = "headlines" THEN "headline block" ELSE ""
          /\ logged' = IF r = "raised" THEN {"DEBUG News fetch/format failed"} ELSE {}
          /\ ev' = [kind |-> "enriched", at |-> Before, result |-> r]
          /\ IF r = "raised"
             THEN /\ i' = i + 1
                  /\ pc' = IF i + 1 > Len(tickers) THEN "persist" ELSE "intraday"
                  /\ interval' = IF i + 1 > Len(tickers) THEN 0 ELSE 1
             ELSE /\ pc' = "deliver"
                  /\ UNCHANGED << i, interval >>
    /\ UNCHANGED << chain, history, runs, DEFAULTS, file, exit, args, state, attempt, calls, open_p,
                    last_p, delta_pct, direction, sent, did >>

\* core.py:338-353  news is enabled: the headline block, or "" when there are
\* none or when any step of the enrichment raises (caught and logged).
EnrichOn ==
    /\ pc = "enrich"
    /\ ~news_cfg.isNone
    /\ news_cfg.enabled
    /\ \E r \in EnrichResults :
          /\ headlines_text' = IF r = "headlines" THEN "headline block" ELSE ""
          /\ logged' = IF r = "raised" THEN {"DEBUG News fetch/format failed"} ELSE {}
          /\ ev' = [kind |-> "enriched", at |-> Before, result |-> r]
    /\ pc' = "deliver"
    /\ UNCHANGED << chain, history, runs, DEFAULTS, file, exit, args, state, i, ladder, open_p, last_p,
                    delta_pct, direction, sent, did >>

\* The record of one notify_ntfy call of run_once; enrich is what the
\* enrichment before it did ("off", "raised", "empty", "headlines").
NotifyEvent(r, topic) ==
    LET body == FormatBody(symbol, delta_pct, open_p, last_p, headlines_text) IN
    [kind |-> "notify", at |-> Before, dir |-> direction,
     dry_run |-> test_cfg.dry_run, result |-> r, enrich |-> ev.result,
     body |-> body, topic |-> topic, chain |-> chain[symbol],
     fetched |-> << open_p, last_p >>,
     log |-> NotifyLog(r, topic, Title(symbol), body)]

\* Mutant of DeliverReturns: a dry run leaves the record as it is.
DeliverReturns_DryRunForgets ==
    /\ pc = "deliver"
    /\ \E post \in PostResults, topic \in Topics :
          LET r == notify_ntfy(test_cfg.dry_run, post) IN
          /\ ~r.raised
          /\ ev' = NotifyEvent(r, topic)
          /\ logged' = r.logs
          /\ chain' = IF history = "chain"
                      THEN [chain EXCEPT ![symbol] =
                              ChainAlerted(chain[symbol], direction,
                                           IF test_cfg.dry_run THEN "dry"
                                           ELSE IF r.delivered THEN "posted"
                                           ELSE "failed")]
                      ELSE chain
    /\ state' = IF test_cfg.dry_run THEN state ELSE Put(state, symbol, direction)
    /\ sent' = sent + 1
    /\ NextTicker
    /\ UNCHANGED << file, exit, args, did, history, runs, DEFAULTS >>
\* Mutant of DeliverReturns: the record in memory is not updated by the call.
DeliverReturns_KeepsRecord ==
    /\ pc = "deliver"
    /\ \E post \in PostResults, topic \in Topics :
          LET r == notify_ntfy(test_cfg.dry_run, post) IN
          /\ ~r.raised
          /\ ev' = NotifyEvent(r, topic)
          /\ logged' = r.logs
    /\ sent' = sent + 1
    /\ NextTicker
    /\ UNCHANGED << chain, state, file, exit, args, did, history, runs, DEFAULTS >>

\* core.py:356-391  the body is formatted and notify_ntfy returns: the record
\* gets state[symbol] = direction, and the loop goes on.
DeliverReturns ==
    /\ pc = "deliver"
    /\ \E post \in PostResults, topic \in Topics :
          LET r == notify_ntfy(test_cfg.dry_run, post) IN
          /\ ~r.raised
          /\ ev' = NotifyEvent(r, topic)
          /\ logged' = r.logs
          /\ chain' = IF history = "chain"
                      THEN [chain EXCEPT ![symbol] =
                              ChainAlerted(chain[symbol], direction,
                                           IF test_cfg.dry_run THEN "dry"
                                           ELSE IF r.delivered THEN "posted"
                                           ELSE "failed")]
                      ELSE chain
    /\ state' = Put(state, symbol, direction)
    /\ sent' = sent + 1
    /\ NextTicker
    /\ UNCHANGED << file, exit, args, did, history, runs, DEFAULTS >>

\* core.py:376-388  notify_ntfy raises: logged, continue; the record is not
\* touched.
DeliverRaises ==
    /\ pc = "deliver"
    /\ \E post \in PostResults, topic \in Topics :
          LET r == notify_ntfy(test_cfg.dry_run, post) IN
          /\ r.raised
          /\ ev' = NotifyEvent(r, topic)
    /\ logged' = {"WARNING Notification failed"}
    /\ sent' = sent + 1
    /\ NextTicker
    /\ UNCHANGED << chain, history, runs, DEFAULTS, file, exit, args, state, did >>

\* core.py:393-396  save_state writes the record, run_once logs its end and
\* returns.
Persist ==
    /\ pc = "persist"
    /\ \E w \in WriteResults :
          LET r == save_state(file, state, w) IN
          /\ file' = r.file
          /\ logged' = r.logs \cup {"INFO Monitoring cycle finished"}
          /\ ev' = [kind |-> "saved", result |-> w, record |-> state, before |-> file]
          /\ chain' = [t \in Tickers |-> ChainCallEnds(chain[t], w = "written")]
    /\ did' = did \cup {"save"}
    /\ Return("finished")
    /\ UNCHANGED << sent, history, runs, DEFAULTS >>

\* What a kill of the process inside path.write_text (state.py:41) leaves on
\* disk: the file as it was (killed before open), a file cut short (killed
\* after open() truncated it and before the text was written out in full), or
\* the new text (killed after the write).
CrashedWrites(f, d) == {f, GarbageFile, JsonFile(d)}

\* The process is killed (signal, power loss) while run_once is loading the
\* state or inside the loop over the tickers: nothing is written; with the
\* process its memory is gone.
Crash ==
    /\ pc = "load" \/ InLoop
    /\ ev' = [kind |-> "crashed", in_save |-> FALSE, before |-> file, record |-> state]
    /\ logged' = {}
    /\ chain' = [t \in Tickers |-> ChainCallEnds(chain[t], FALSE)]
    /\ Return("crashed")
    /\ UNCHANGED << file, sent, did, history, runs, DEFAULTS >>

\* core.py:394, state.py:41  the process is killed inside save_state.
CrashInSave ==
    /\ pc = "persist"
    /\ file' \in CrashedWrites(file, state)
    /\ ev' = [kind |-> "crashed", in_save |-> TRUE, before |-> file, record |-> state]
    /\ logged' = {}
    /\ chain' = [t \in Tickers |-> ChainCallEnds(chain[t], FALSE)]
    /\ Return("crashed")
    /\ UNCHANGED << sent, did, history, runs, DEFAULTS >>

Next ==
    \/ GateClosed
    \/ GatePassed
    \/ LoadState
    \/ IntradayHit
    \/ IntradayMiss
    \/ DailyHit
    \/ DailyMiss
    \/ Daily5Hit
    \/ Daily5Miss
    \/ DeltaFails
    \/ Decide
    \/ Suppress
    \/ Alert
    \/ EnrichNone
    \/ EnrichOff
    \/ EnrichOn
    \/ DeliverReturns
    \/ DeliverRaises
    \/ Persist
    \/ Crash
    \/ CrashInSave

Spec == Init /\ [][Next]_vars

\* run_once with every external call (provider, news, ntfy, file system)
\* returning or failing: a call that has begun takes its next step, and the
\* scheduler starts the next call.  The ticker lists are those of one ticker,
\* of every length up to the bound.
SpecLive == InitLive /\ [][Next]_vars /\ WF_vars(Next)

\* ------------------------------------------- load_state and save_state alone
\* The state file is whatever it is when the program is not running: as left
\* by the last save_state, edited, removed, or made unreadable.
FileChanged ==
    /\ pc = "idle"
    /\ file' \in StateFiles \ {file}
    /\ ev' = [kind |-> "file"]
    /\ logged' = {}
    /\ UNCHANGED << pc, exit, args, state, i, ladder, locals, sent, did, chain, history, runs, DEFAULTS >>

\* state.py:9-30  one call of load_state on the file; state holds what it
\* returned.
LoadStateCall ==
    /\ pc = "idle"
    /\ state' = load_state(file).value
    /\ logged' = load_state(file).logs
    /\ ev' = [kind |-> "load", file |-> file]
    /\ UNCHANGED << file, pc, exit, args, i, ladder, locals, sent, did, chain, history, runs, DEFAULTS >>

\* state.py:35-45  one call of save_state with a record.
SaveStateCall ==
    /\ pc = "idle"
    /\ \E d \in Records, w \in WriteResults :
          /\ file' = save_state(file, d, w).file
          /\ logged' = save_state(file, d, w).logs
          /\ ev' = [kind |-> "save", record |-> d, result |-> w, before |-> file]
    /\ UNCHANGED << pc, exit, args, state, i, ladder, locals, sent, did, chain, history, runs, DEFAULTS >>

NextState ==
    \/ FileChanged
    \/ LoadStateCall
    \/ SaveStateCall

SpecState == Init /\ [][NextState]_vars

\* ------------------------------------------------ is_market_hours alone
\* The program is about to ask the market clock, with some market_hours
\* config and at some time of the week.
InitClock ==
    /\ StartBut
    /\ history = "off"
    /\ \E cfg_mh \in ClockCfgs, utc \in Instants :
          ev = [kind |-> "clock_at", cfg |-> cfg_mh, utc |-> utc]

\* core.py:226-267  the call of is_market_hours with that config, at that time.
ClockCall ==
    /\ ev.kind = "clock_at"
    /\ LET r == is_market_hours_call(ev.cfg, ev.utc) IN
          /\ ev' = [kind |-> "clock", cfg |-> ev.cfg, utc |-> ev.utc, result |-> r]
          /\ logged' = r.logs
    /\ UNCHANGED << file, pc, exit, args, state, i, ladder, locals, sent, did, chain,
                    history, runs, DEFAULTS >>

NextClock == ClockCall

SpecClock == InitClock /\ [][NextClock]_vars

\* ------------------------------------------ two calls on one state file
\* The other of the two calls.
Other(p) == CHOOSE q \in Invocations : q # p

\* core.py:307  a call loads the record; nothing keeps it from starting while
\* the other call is running.
RunLoad ==
    /\ pc = "idle"
    /\ \E p \in Invocations :
          /\ runs.of[p].pc = "idle"
          /\ runs' = [of |-> [runs.of EXCEPT ![p] =
                                [pc |-> "loop", loaded |-> load_state(file).value,
                                 rec |-> load_state(file).value, n |-> 0,
                                 alerts |-> {}, saved |-> "none"]],
                      together |-> runs.of[Other(p)].pc = "loop",
                      last |-> [runs.last EXCEPT
                                  !.apart = @ /\ runs.of[Other(p)].pc = "idle"]]
          /\ ev' = [kind |-> "run_load", run |-> p, before |-> runs]
    /\ logged' = load_state(file).logs
    /\ UNCHANGED << file, pc, exit, args, state, i, ladder, locals, sent, did, chain,
                    history, DEFAULTS >>

\* Mutant of RunAlert: the record is not consulted before the alert is sent.
RunAlert_NoDebounce ==
    /\ pc = "idle"
    /\ \E p \in Invocations, d \in {"up", "down"} :
          /\ runs.of[p].pc = "loop"
          /\ runs.of[p].n < MaxTickers
          /\ runs' = [runs EXCEPT !.of[p].rec = Put(@, "AAPL", d),
                                  !.of[p].n = @ + 1,
                                  !.of[p].alerts = @ \cup {<< "AAPL", d >>},
                                  !.last = [dir |-> d,
                                            apart |-> runs.of[Other(p)].pc = "idle",
                                            kept |-> TRUE]]
          /\ ev' = [kind |-> "run_alert", run |-> p, symbol |-> "AAPL", dir |-> d,
                    before |-> runs]
    /\ logged' = {}
    /\ UNCHANGED << file, pc, exit, args, state, i, ladder, locals, sent, did, chain,
                    history, DEFAULTS >>

\* core.py:329-391  a ticker of a call is not suppressed by the call's record,
\* notify_ntfy returns and the record gets the direction.
RunAlert ==
    /\ pc = "idle"
    /\ \E p \in Invocations, d \in {"up", "down"} :
          /\ runs.of[p].pc = "loop"
          /\ runs.of[p].n < MaxTickers
          /\ ~Suppressed(runs.of[p].rec, "AAPL", d)
          /\ runs' = [runs EXCEPT !.of[p].rec = Put(@, "AAPL", d),
                                  !.of[p].n = @ + 1,
                                  !.of[p].alerts = @ \cup {<< "AAPL", d >>},
                                  !.last = [dir |-> d,
                                            apart |-> runs.of[Other(p)].pc = "idle",
                                            kept |-> TRUE]]
          /\ ev' = [kind |-> "run_alert", run |-> p, symbol |-> "AAPL", dir |-> d,
                    before |-> runs]
    /\ logged' = {}
    /\ UNCHANGED << file, pc, exit, args, state, i, ladder, locals, sent, did, chain,
                    history, DEFAULTS >>

\* core.py:394  a call saves its record and ends.
RunSave ==
    /\ pc = "idle"
    /\ \E p \in Invocations, w \in WriteResults :
          LET r == save_state(file, runs.of[p].rec, w) IN
          /\ runs.of[p].pc = "loop"
          /\ file' = r.file
          /\ logged' = r.logs
          /\ runs' = [runs EXCEPT !.of[p].pc = "idle",
                                  !.of[p].saved = w,
                                  !.last.kept = @ /\ w = "written"]
          /\ ev' = [kind |-> "run_save", run |-> p, result |-> w,
                    disk |-> load_state(file).value, before |-> runs]
    /\ UNCHANGED << pc, exit, args, state, i, ladder, locals, sent, did, chain, history, DEFAULTS >>

NextOverlap ==
    \/ RunLoad
    \/ RunAlert
    \/ RunSave

SpecOverlap == Init /\ [][NextOverlap]_vars

\* One load_config call (config.py:57-100): the module's DEFAULTS after it
\* are the dicts of DEFAULTS in the heap the call leaves.
LoadConfigCall ==
    /\ \E f \in ConfigFiles, env \in Envs :
          LET r == load_config(DEFAULTS, f, env) IN
          /\ DEFAULTS' = DefaultsOf(r.heap)
          /\ ev' = [kind |-> "config", file |-> f, env |-> env,
                    raised |-> r.raised, cfg |-> r.cfg,
                    args |-> f.user @@ DEFAULTS,
                    merged |-> IF f.kind = "garbage" THEN f.user @@ DEFAULTS
                               ELSE deep_merge(f.user @@ DEFAULTS, << "DEFAULTS" >>,
                                               << "user" >>, << "cfg" >>)]
    /\ UNCHANGED << file, pc, exit, args, state, i, ladder, locals, sent, did, logged,
                    chain, history, runs >>

NextConfig == LoadConfigCall

\* load_config called again and again in one process.
SpecConfig == Init /\ [][NextConfig]_vars

\* The same program watching one ticker, with the alert history kept.
SpecHistory == InitHistory /\ [][Next]_vars

\* ================================================================ claims
\* The ticker lists, reversed directions and the full price ladder, as the
\* claims name them.
Opposite(dir) == IF dir = "up" THEN "down" ELSE IF dir = "down" THEN "up" ELSE None

FullLadder ==
    << << "1d", "1m" >>, << "1d", "1m" >>, << "1d", "5m" >>, << "1d", "5m" >>,
       << "1d", "15m" >>, << "1d", "15m" >>, << "1d", "1d" >>, << "5d", "1d" >> >>

IsPrefix(s, t) == Len(s) <= Len(t) /\ \A k \in 1..Len(s) : s[k] = t[k]

\* The loop of run_once goes on after the step: it stands at the next ticker's
\* first provider call or, after the last ticker, before save_state.
LoopGoesOn ==
    /\ i = ev.at.index + 1
    /\ pc = IF i > Len(tickers) THEN "persist" ELSE "intraday"
    /\ exit = "none"

\* C1: for every ticker that reaches Deliver, record[ticker] = direction is set
\* if and only if the delivery succeeded (a dry run counts as one); when the
\* delivery fails the failure is logged and record[ticker] keeps its prior
\* value, so that the next cycle delivers the alert again.
C1_RecordSetIffDelivered ==
    ev.kind = "notify" =>
        LET succeeded == ~ev.result.raised /\ (ev.result.delivered \/ ev.dry_run) IN
        /\ (Get(state, ev.at.symbol) = ev.dir) <=> succeeded
        /\ ~succeeded =>
              /\ Get(state, ev.at.symbol) = ev.at.prior
              /\ \E l \in logged : l \in {"WARNING ntfy POST failed",
                                          "WARNING Notification failed"}

\* C2: an alert is suppressed if and only if the direction is none or equals
\* record[ticker]; a suppressed ticker gets no Enrich, Format, Deliver or
\* UpdateState: no notify_ntfy call is made, the record is unchanged and the
\* loop stands at the next ticker; a ticker that is not suppressed goes on to
\* Enrich.
C2_SuppressedIffNoneOrSame ==
    ev.kind = "debounce" =>
        LET suppressed == ev.dir = "none" \/ ev.at.prior = ev.dir IN
        /\ suppressed =>
              /\ LoopGoesOn
              /\ state = ev.at.record
              /\ sent = ev.at.sent
              /\ headlines_text = None
        /\ ~suppressed =>
              /\ pc = "enrich"
              /\ i = ev.at.index
              /\ direction = ev.dir

\* C2 witness: a ticker whose direction equals its entry in the record was
\* passed over while another ticker waits.
C2_Witness ==
    /\ ev.kind = "debounce"
    /\ ev.dir \in {"up", "down"}
    /\ ev.at.prior = ev.dir
    /\ pc = "intraday"
    /\ sent = 0

\* C3: a reversal always re-alerts.  With record[T] the opposite of the computed
\* direction, the ticker is not suppressed and its iteration makes exactly one
\* notify_ntfy call (it does not end before the call), after whose return
\* record[T] is the new direction; with record[T] equal to the computed
\* direction no call is made and the record is unchanged.
C3_ReversalRealerts ==
    /\ (ev.kind = "debounce" /\ ev.dir \in {"up", "down"}
          /\ ev.at.prior = Opposite(ev.dir)) => pc = "enrich"
    /\ (ev.kind = "raised" /\ ev.dir \in {"up", "down"})
          => ev.at.prior # Opposite(ev.dir)
    /\ (ev.kind = "notify" /\ ev.at.prior = Opposite(ev.dir)) =>
          /\ sent = ev.at.sent + 1
          /\ ~ev.result.raised => Get(state, ev.at.symbol) = ev.dir
    /\ (ev.kind = "debounce" /\ ev.dir \in {"up", "down"} /\ ev.at.prior = ev.dir) =>
          /\ sent = ev.at.sent
          /\ state = ev.at.record
          /\ LoopGoesOn

C5_DirectionIff ==
    (pc = "debounce" /\ threshold_pct >= 0) =>
        /\ direction = "up" <=> delta_pct >= threshold_pct
        /\ direction = "down" <=> delta_pct <= -threshold_pct
        /\ direction = "none" <=>
              ~(delta_pct >= threshold_pct) /\ ~(delta_pct <= -threshold_pct)

\* C5 as amended: Up iff d >= t; Down iff d <= -t and not d >= t (the two
\* overlap only at t = 0, d = 0, where the decision is Up); None otherwise.
C5_DirectionUpFirst ==
    (pc = "debounce" /\ threshold_pct >= 0) =>
        /\ direction \in {"up", "down", "none"}
        /\ direction = "up" <=> delta_pct >= threshold_pct
        /\ direction = "down" <=>
              delta_pct <= -threshold_pct /\ ~(delta_pct >= threshold_pct)
        /\ direction = "none" <=>
              ~(delta_pct >= threshold_pct) /\ ~(delta_pct <= -threshold_pct)

\* C5 witness: threshold 0 and delta 0, decided Up.
C5_Witness ==
    /\ pc = "debounce"
    /\ threshold_pct = 0
    /\ delta_pct = 0
    /\ direction = "up"

\* C6: when the test configuration demands the gate and the market clock says
\* closed, run_once ends at once and without an exception: nothing was loaded,
\* fetched, sent or saved, and the state file is as it was.
C6_GateClosedTouchesNothing ==
    (ev.kind = "gate" /\ ev.test_cfg.enabled /\ ~ev.test_cfg.bypass_market_hours
        /\ ~ev.open) =>
        /\ pc = "idle"
        /\ exit = "gate"
        /\ did = {}
        /\ sent = 0
        /\ file = ev.file

\* C6 witness: the gate closes a cycle over an existing state file.
C6_Witness ==
    /\ ev.kind = "gate"
    /\ ev.test_cfg.enabled /\ ~ev.test_cfg.bypass_market_hours
    /\ ~ev.open
    /\ exit = "gate"
    /\ file.kind = "json"
    /\ file.text # {}

\* C7: per-ticker failures are isolated.  No exception leaves run_once; after a
\* failed fetch and after a notify_ntfy call, failed or not, the loop goes on;
\* after the enrichment, failed or not, the alert is delivered; no step changes
\* the record entry of another ticker; a finished cycle has saved the record.
C7_FailuresIsolated ==
    /\ exit # "raised"
    /\ ev.kind \in {"skipped", "notify"} => LoopGoesOn
    /\ ev.kind = "enriched" => pc = "deliver"
    /\ (ev.kind \in {"skipped", "debounce", "enriched", "notify"}) =>
          \A t \in Tickers \ {ev.at.symbol} : Get(state, t) = Get(ev.at.record, t)
    /\ exit = "finished" => "save" \in did

\* C8: when every price tier is exhausted for a ticker, get_open_and_last
\* raises an error that names the ticker, and run_once skips the ticker: no
\* notify_ntfy call for it, the record unchanged, and the loop goes on with the
\* remaining tickers.
C8_ExhaustedTickerSkipped ==
    (ev.kind = "skipped" /\ ev.error.type = "RuntimeError") =>
        /\ ev.error.ticker = ev.at.symbol
        /\ sent = ev.at.sent
        /\ state = ev.at.record
        /\ headlines_text = None
        /\ LoopGoesOn

\* C8 witness: the first of two tickers, with a stored direction, runs out of
\* tiers; the loop stands at the second ticker.
C8_Witness ==
    /\ ev.kind = "skipped"
    /\ ev.error = NoDataError("AAPL")
    /\ ev.at.prior \in {"up", "down"}
    /\ ev.at.index = 1
    /\ pc = "intraday"
    /\ symbol = "SAP.DE"

\* C9: get_open_and_last raises only after the three intraday intervals, twice
\* each, the 1-day fetch and the 5-day fetch have all been tried; a try of an
\* earlier tier that raises or gives nothing usable leaves control inside
\* get_open_and_last, at the next try of the ladder.
C9_RaisesOnlyAfterEveryTier ==
    /\ (ev.kind = "skipped" /\ ev.error.type = "RuntimeError") =>
          ev.calls = FullLadder
    /\ ev.kind = "miss" =>
          /\ pc \in {"intraday", "daily", "daily5"}
          /\ exit = "none"
          /\ i = ev.at.index
          /\ calls # << >>
          /\ Len(calls) < Len(FullLadder)
          /\ IsPrefix(calls, FullLadder)

\* C9 witness: the second ticker of a list exhausts all eight calls.
C9_Witness ==
    /\ ev.kind = "skipped"
    /\ ev.error.type = "RuntimeError"
    /\ Len(ev.calls) = 8
    /\ ev.at.index = 2
    /\ pc = "persist"

\* C10: the intraday calls are made in the order 1m, 1m, 5m, 5m, 15m, 15m: the
\* call that follows a miss is the next of that order.  The first usable frame
\* ends the ladder: get_open_and_last returns (first candle's open, last
\* candle's close) and control is back in run_once, past every provider call.
C10_LadderOrderAndFirstHit ==
    /\ IsPrefix(calls, FullLadder)
    /\ pc = "intraday" =>
          /\ Len(calls) = (interval - 1) * Tries + attempt
          /\ attempt < Tries
          /\ << "1d", Intervals[interval] >> = FullLadder[Len(calls) + 1]
    /\ ev.kind = "fetched" =>
          /\ pc = "delta"
          /\ i = ev.at.index
          /\ Usable(ev.df)
          /\ Len(calls) <= Len(Intervals) * Tries =>
                /\ open_p = ev.df.rows[1].Open
                /\ last_p = ev.df.rows[Len(ev.df.rows)].Close
    /\ pc \in {"debounce", "enrich", "deliver", "persist", "idle", "load"}
          => calls = << >>

\* C10 witness: the second try on 5m, after three misses, returns a frame of
\* two candles.
C10_Witness ==
    /\ ev.kind = "fetched"
    /\ calls = << << "1d", "1m" >>, << "1d", "1m" >>, << "1d", "5m" >>, << "1d", "5m" >> >>
    /\ Len(ev.df.rows) = 2
    /\ open_p = 100
    /\ last_p = 104

\* C11: when the six intraday tries give nothing and the 1-day fetch returns a
\* usable frame, get_open_and_last returns the open and close of that daily
\* candle without raising, and the 5-day fetch is not attempted: the 1-day call
\* is the last provider call made for the ticker.
C11_DailyCandleReturned ==
    /\ (ev.kind = "fetched" /\ Len(calls) = Len(Intervals) * Tries + 1) =>
          /\ calls = SubSeq(FullLadder, 1, Len(Intervals) * Tries + 1)
          /\ calls[Len(calls)] = << "1d", "1d" >>
          /\ open_p = ev.df.rows[Len(ev.df.rows)].Open
          /\ last_p = ev.df.rows[Len(ev.df.rows)].Close
          /\ pc = "delta"
          /\ exit = "none"
          /\ i = ev.at.index
    /\ ev.kind = "miss" => ev.response.raised \/ ~Usable(ev.response.df)
    /\ pc = "daily5" =>
          /\ ev.kind = "miss"
          /\ calls = SubSeq(FullLadder, 1, Len(Intervals) * Tries + 1)

\* C11 witness: the 1-day fetch, seventh call for the ticker, returned a frame
\* whose last row opened at 50 and closed at 104.
C11_Witness ==
    /\ ev.kind = "fetched"
    /\ Len(calls) = 7
    /\ calls[7] = << "1d", "1d" >>
    /\ Len(ev.df.rows) = 2
    /\ open_p = 50
    /\ last_p = 104
    /\ pc = "delta"

\* The provider calls of a list made on an intraday interval, and those made on
\* the daily interval.
IntradayAttempts(cs) ==
    Cardinality({ k \in 1..Len(cs) : \E j \in 1..Len(Intervals) : cs[k][2] = Intervals[j] })

DailyAttempts(cs) ==
    Cardinality({ k \in 1..Len(cs) : cs[k][2] = "1d" })

\* C12: whatever the provider does, one call of get_open_and_last makes at
\* most 6 intraday attempts and at most 2 daily attempts, 8 in all; the calls
\* are counted anew for every ticker occurrence of a cycle.
C12_AtMostEightAttempts ==
    /\ IntradayAttempts(calls) <= 6
    /\ DailyAttempts(calls) <= 2
    /\ Len(calls) = IntradayAttempts(calls) + DailyAttempts(calls)
    /\ Len(calls) <= 8
    /\ ev.kind = "skipped" =>
          /\ IntradayAttempts(ev.calls) <= 6
          /\ DailyAttempts(ev.calls) <= 2
          /\ Len(ev.calls) <= 8
          /\ calls = << >>
    /\ (pc = "intraday" /\ interval = 1 /\ attempt = 0) => calls = << >>

\* C12 witness: the second ticker of a cycle gets its prices from the eighth
\* call, after six intraday and one daily miss.
C12_Witness ==
    /\ ev.kind = "fetched"
    /\ IntradayAttempts(calls) = 6
    /\ DailyAttempts(calls) = 2
    /\ ev.at.index = 2
    /\ Len(ev.df.rows) = 1

\* C13: when the intraday tiers and the 1-day fetch gave nothing, whether the
\* 1-day fetch returned an empty frame or raised, the 5-day fetch is the next
\* provider call, and when it returns a usable frame get_open_and_last returns
\* the open and close of its last row (the most recent day).
C13_FiveDayFallback ==
    /\ (ev.kind = "miss" /\ Len(calls) = Len(Intervals) * Tries + 1) =>
          /\ pc = "daily5"
          /\ i = ev.at.index
          /\ exit = "none"
    /\ (ev.kind = "fetched" /\ Len(calls) = Len(FullLadder)) =>
          /\ calls = FullLadder
          /\ calls[Len(calls)] = << "5d", "1d" >>
          /\ open_p = ev.df.rows[Len(ev.df.rows)].Open
          /\ last_p = ev.df.rows[Len(ev.df.rows)].Close
          /\ pc = "delta"
          /\ i = ev.at.index

\* C13 witness: after seven misses the 5-day fetch returned two days; the
\* prices are those of the second.
C13_Witness ==
    /\ ev.kind = "fetched"
    /\ calls = FullLadder
    /\ ev.df.rows = << Candle(100, 99), Candle(50, 104) >>
    /\ open_p = 50
    /\ last_p = 104

\* C13 witness of the other way into the 5-day fetch: the 1-day fetch raised.
C13_WitnessRaised ==
    /\ ev.kind = "miss"
    /\ ev.response.raised
    /\ pc = "daily5"

\* C14: enrichment is best-effort.  With news enabled, an exception in any step
\* of the enrichment is caught and logged; the alert of the ticker is still
\* formatted, with an empty headline block, and handed to notify_ntfy, and
\* when that call returns the record is updated as for any alert.
C14_EnrichFailureStillAlerts ==
    /\ (ev.kind = "enriched" /\ ev.result = "raised") =>
          /\ pc = "deliver"
          /\ exit = "none"
          /\ i = ev.at.index
          /\ headlines_text = ""
          /\ "DEBUG News fetch/format failed" \in logged
          /\ state = ev.at.record
    /\ (ev.kind = "notify" /\ ev.enrich = "raised") =>
          /\ ev.body = FormatBody(ev.at.symbol, ev.body.delta, ev.body.open,
                                  ev.body.last, "")
          /\ sent = ev.at.sent + 1
          /\ ~ev.result.raised => state = Put(ev.at.record, ev.at.symbol, ev.dir)
          /\ ev.result.raised => state = ev.at.record
          /\ LoopGoesOn
    /\ (pc = "deliver" /\ news_cfg.enabled) => ev.kind = "enriched" /\ ev.result # "off"

\* C14 witness: the enrichment of an alert raised, and the alert was posted
\* and accepted without headlines; the record holds its direction.
C14_Witness ==
    /\ ev.kind = "notify"
    /\ ev.enrich = "raised"
    /\ ev.body.news = ""
    /\ ev.result.delivered
    /\ Get(state, ev.at.symbol) = ev.dir
    /\ ev.at.prior # ev.dir

\* C15: in every cycle that passes the gate the state is loaded exactly once,
\* before the first ticker, and the record is written exactly once, after the
\* last ticker; no step inside the loop writes the state file, whatever fails.
C15_LoadOnceSaveOnce ==
    /\ pc = "load" => did = {} /\ ev.kind = "gate" /\ file = ev.file
    /\ InLoop => "load" \in did /\ "save" \notin did
    /\ (InLoop /\ ev.kind \notin {"loaded"}) => file = ev.at.file
    /\ pc = "persist" =>
          /\ i = Len(tickers) + 1
          /\ "load" \in did /\ "save" \notin did
          /\ ev.kind # "loaded" => file = ev.at.file
    /\ ev.kind = "saved" =>
          /\ pc = "idle"
          /\ ev.result = "written" => file = JsonFile(ev.record)
    /\ (pc = "idle" /\ exit \in {"finished", "raised"}) => did \ {"fetch"} = {"load", "save"}

\* C16: a crash at any point of a cycle, also inside save_state, leaves on
\* disk either the complete record of before the cycle or the complete new
\* record, never a partial or empty file.
C16_CrashKeepsFileWhole ==
    ev.kind = "crashed" =>
        \/ file = ev.before
        \/ file = JsonFile(ev.record)

\* A state file that holds a mapping from ticker strings to "up" / "down".
WellFormed(f) == f.kind = "json" /\ \A m \in f.text : m[2] \in {"up", "down"}

\* C17: load_state never raises and fails open.  It returns {} when the file
\* is absent, unreadable, no JSON, no JSON object, or an object with a value
\* that is no direction, logging a warning unless the file is merely absent;
\* it returns the stored mapping only when the file is a well-formed mapping.
C17_LoadFailsOpen ==
    ev.kind = "load" =>
        /\ state = IF WellFormed(ev.file) THEN Loads(ev.file.text) ELSE EmptyDict
        /\ \A k \in DOMAIN state : state[k] \in {"up", "down"}
        /\ ev.file.kind \in {"garbage", "nondict", "unreadable"} =>
              \E l \in logged : l \in {"WARNING Could not read state file",
                                       "WARNING State file did not contain a dict"}

\* C18: a failure to write the state file is logged and not fatal: save_state
\* does not raise, run_once finishes normally, what was delivered stays
\* delivered, and the next cycle starts from the older state, the one on disk
\* before the failed write.
C18_WriteFailureNotFatal ==
    (ev.kind = "saved" /\ ev.result # "written") =>
        /\ pc = "idle"
        /\ exit = "finished"
        /\ "WARNING Could not write state file" \in logged
        /\ "INFO Monitoring cycle finished" \in logged
        /\ load_state(file).value = load_state(ev.before).value

C20_DryRunPostsNothing ==
    (ev.kind = "notify" /\ ev.dry_run) =>
        /\ ~ev.result.posted
        /\ ~ev.result.delivered
        /\ ~ev.result.raised
        /\ "INFO DRY-RUN ntfy" \in logged
        /\ Len(ev.log) = 1
        /\ ev.log[1].title = Title(ev.at.symbol)
        /\ ev.log[1].topic = mask_secret(ev.topic)
        /\ ev.log[1].msg = ev.body
        /\ ev.body.symbol = ev.at.symbol

\* C20 witness: a dry run for the second ticker of a cycle, with a topic of
\* five characters, logged with the topic as "t...c".
C20_Witness ==
    /\ ev.kind = "notify"
    /\ ev.dry_run
    /\ ev.at.index = 2
    /\ ev.topic = << "t", "o", "p", "i", "c" >>
    /\ ev.log[1].topic = << "t", "...", "c" >>
    /\ ~ev.result.posted

\* ------------------------------------------------------------------ C21
\* The override of the delta is active: core.py:321.
OverrideActive(tcfg) == tcfg.enabled /\ tcfg.force_delta_pct # << >>

OnlyDirections(d) == \A k \in DOMAIN d : d[k] \in {"up", "down"}

\* C22: every value of the record, in memory and on disk, is "up" or "down"
\* (none is never stored), and a ticker gets its entry only by a delivered
\* alert: an entry is created by no step other than a notify_ntfy call, and a
\* ticker that was absent before a call that delivered nothing is absent
\* after it.
C22_OnlyDeliveredDirections ==
    /\ OnlyDirections(state)
    /\ file.kind = "json" => OnlyDirections(Loads(file.text))
    /\ ev.kind \in {"miss", "fetched", "skipped", "decided", "debounce", "enriched"}
       => state = ev.at.record
    /\ (ev.kind = "notify" /\ ev.at.prior = None)
       => LET succeeded == ~ev.result.raised /\ (ev.result.delivered \/ ev.dry_run) IN
          ~succeeded => Get(state, ev.at.symbol) = None

\* ------------------------------------------------------------------ C23
\* C23: with test.enabled true and force_delta_pct not null, the delta of the
\* threshold decision and of the message is the injected value, whatever open
\* and last were fetched; with test.enabled false or force_delta_pct null it
\* is (last - open) / open * 100.
C23_OverrideReplacesDelta ==
    /\ pc = "debounce"
       => /\ direction = Direction(delta_pct, threshold_pct)
          /\ (test_cfg.enabled /\ test_cfg.force_delta_pct # << >>)
             => delta_pct = test_cfg.force_delta_pct[1]
          /\ (~test_cfg.enabled \/ test_cfg.force_delta_pct = << >>)
             => delta_pct * open_p = (last_p - open_p) * 100
    /\ ev.kind = "notify"
       => /\ ev.dir = Direction(ev.body.delta, threshold_pct)
          /\ ev.body.text[1][5] = Fixed(ev.body.delta, 2)
          /\ (test_cfg.enabled /\ test_cfg.force_delta_pct # << >>)
             => ev.body.delta = test_cfg.force_delta_pct[1]
          /\ (~test_cfg.enabled \/ test_cfg.force_delta_pct = << >>)
             => ev.body.delta * ev.body.open = (ev.body.last - ev.body.open) * 100

\* C23 happens: the fetched prices fell by four percent, the injected delta is
\* +4, and the alert that was sent is an alert of +4, up.
C23_Witness ==
    /\ ev.kind = "notify"
    /\ test_cfg.enabled
    /\ test_cfg.force_delta_pct = << 4 >>
    /\ ev.body.open = 100
    /\ ev.body.last = 96
    /\ ev.body.delta = 4
    /\ ev.dir = "up"

\* ------------------------------------------------------------------ C24
\* A call sends the alert that was the last one sent: a duplicate delivery.
DuplicateDelivery == ev.kind = "run_alert" /\ ev.before.last.dir = ev.dir

\* A save_state replaces an entry that another save wrote after the saving call
\* had loaded, by something else: a lost update.
LostUpdate ==
    /\ ev.kind = "run_save"
    /\ ev.result = "written"
    /\ \E t \in Tickers :
          /\ Get(ev.disk, t) # Get(ev.before.of[ev.run].loaded, t)
          /\ Get(ev.before.of[ev.run].rec, t) # Get(ev.disk, t)

C24_WitnessDuplicate ==
    /\ DuplicateDelivery
    /\ ev.before.together
    /\ ev.before.of[1].loaded = ev.before.of[2].loaded
    /\ << ev.symbol, ev.dir >> \in ev.before.of[Other(ev.run)].alerts

\* ------------------------------------------------------------------ C25
\* The days the weekdays-only rule excludes.
Weekend == {5, 6}

\* C25: with enabled = false is_market_hours is true at every time and for
\* every value of the other fields; with enabled = true and the weekdays-only
\* flag it is false at every time of a Saturday or Sunday, whatever the hour.
C25_DisabledOpenWeekendClosed ==
    ev.kind = "clock" =>
        /\ ~ev.cfg.enabled => ev.result.open
        /\ ( /\ ev.cfg.enabled
             /\ ev.cfg.days_mon_to_fri_only
             /\ ev.result.now.weekday \in Weekend )
           => ~ev.result.open

\* C25 happens: a Saturday inside the hour window is closed.
C25_Witness ==
    /\ ev.kind = "clock"
    /\ ev.cfg.enabled
    /\ ev.cfg.days_mon_to_fri_only
    /\ ev.result.now.weekday = 5
    /\ ev.cfg.start_hour <= ev.result.now.hour
    /\ ev.result.now.hour < ev.cfg.end_hour
    /\ ~ev.result.open

\* ------------------------------------------------------------------ C26
\* C26: with enabled = true and the day not excluded by the weekdays-only
\* rule, is_market_hours is true if and only if start_hour <= hour < end_hour
\* on the clock of the configured timezone; the minute changes nothing.
C26_OpenIffInWindow ==
    ( /\ ev.kind = "clock"
      /\ ev.cfg.enabled
      /\ ~(ev.cfg.days_mon_to_fri_only /\ ev.result.now.weekday \in Weekend) )
    => /\ ev.result.open
          <=> /\ ev.cfg.start_hour <= ev.result.now.hour
              /\ ev.result.now.hour < ev.cfg.end_hour
       /\ ev.cfg.tz \in DOMAIN ZoneOffsets => ev.result.now = InZone(ev.utc, ev.cfg.tz)
       /\ \A m \in 0..59 :
             is_market_hours_call(ev.cfg, [ev.utc EXCEPT !.minute = m]).open
                = ev.result.open

\* C26 happens: in Berlin it is the last minute of the hour before end_hour,
\* an hour later than in UTC, and the market is open.
C26_Witness ==
    /\ ev.kind = "clock"
    /\ ev.cfg.enabled
    /\ ev.cfg.tz = "Europe/Berlin"
    /\ ev.result.now.weekday = 0
    /\ ev.result.now.hour = ev.cfg.end_hour - 1
    /\ ev.result.now.minute = 59
    /\ ev.utc.hour = ev.cfg.end_hour - 2
    /\ ev.result.open

\* ------------------------------------------------------------------ C27
\* C27: for a timezone identifier ZoneInfo rejects, no exception leaves
\* is_market_hours: now_tz logs a warning and gives the time in UTC, and the
\* weekday rule and the hour window are evaluated on that time.
C27_BadZoneFallsBackToUtc ==
    ( /\ ev.kind = "clock"
      /\ ev.cfg.enabled
      /\ ev.cfg.tz \notin DOMAIN ZoneOffsets )
    => /\ ~ev.result.raised
       /\ "WARNING Invalid timezone, falling back to UTC" \in logged
       /\ ev.result.now = ev.utc
       /\ ev.result.open = is_market_hours(ev.cfg, ev.utc)

\* C27 happens: an unknown zone, and the answer is the answer for UTC where
\* the clock of Berlin would have given the other one.
C27_Witness ==
    /\ ev.kind = "clock"
    /\ ev.cfg.enabled
    /\ ev.cfg.tz = "Europe/Atlantis"
    /\ ev.result.open
    /\ ~is_market_hours(ev.cfg, InZone(ev.utc, "Europe/Berlin"))
    /\ "WARNING Invalid timezone, falling back to UTC" \in logged

\* ------------------------------------------------------------------ C28
\* C28: every cycle terminates: a run_once call that has begun reaches its end
\* (it stands between calls again), for every ticker list and whatever the
\* external calls answer.
C28_EveryCycleTerminates == (pc # "idle") ~> (pc = "idle")

\* C28 happens: a call on a list of the greatest length, which alerted for
\* every ticker of it, has ended after save_state.
C28_Witness ==
    /\ pc = "idle"
    /\ exit = "finished"
    /\ ev.kind = "saved"
    /\ sent = MaxTickers
    /\ did = {"load", "fetch", "save"}

C30_DeliveredAlertsAlternate ==
    ( /\ ev.kind = "notify"
      /\ ~ev.result.raised
      /\ ev.result.delivered \/ ev.dry_run
      /\ ev.chain.got # None )
    => ev.dir # ev.chain.got

\* ------------------------------------------------------------------ C31
\* C31: a dry run counts as a delivery for the record.  The notify_ntfy call of
\* a dry run sends nothing and the record gets the direction; once that record
\* is saved, a later cycle without dry_run that computes the same direction
\* for the ticker is suppressed: no notify_ntfy call, the record unchanged.
C31_DryRunSuppressesRealAlert ==
    /\ (ev.kind = "notify" /\ ev.dry_run)
       => /\ ~ev.result.posted
          /\ ~ev.result.raised
          /\ Get(state, ev.at.symbol) = ev.dir
    /\ ( /\ ev.kind = "debounce"
         /\ ev.dir \in {"up", "down"}
         /\ ev.chain.dir = ev.dir
         /\ ev.chain.how = "dry"
         /\ ev.chain.ok
         /\ ~test_cfg.dry_run )
       => /\ LoopGoesOn
          /\ sent = ev.at.sent
          /\ state = ev.at.record
          /\ ev.at.prior = ev.dir

\* C31 happens: the last alert of the ticker was a dry run, and now a cycle
\* that would really send computes the same direction and passes it over.
C31_Witness ==
    /\ ev.kind = "debounce"
    /\ ev.dir = "up"
    /\ ev.chain.dir = "up"
    /\ ev.chain.how = "dry"
    /\ ev.chain.ok
    /\ ~test_cfg.dry_run
    /\ ~test_cfg.enabled
    /\ ev.at.index = 1
    /\ sent = 0
    /\ LoopGoesOn

\* ------------------------------------------------------------------ C32
\* C32: with news_cfg = None run_once behaves as with news disabled: no
\* exception leaves it, an alert that is due is delivered without headlines,
\* the loop goes on and the record is saved.
C32_NoneNewsIsNewsOff ==
    /\ exit # "raised"
    /\ (ev.kind = "debounce" /\ news_cfg.isNone) => pc \in {"intraday", "persist", "enrich"}
    /\ (ev.kind = "notify" /\ news_cfg.isNone) => ev.body.news = ""
    /\ exit = "finished" => "save" \in did

\* ------------------------------------------------------------------ C33
\* The part of a log record of notify_ntfy that is made from the topic.
Shown(l) == IF "url" \in DOMAIN l THEN l.url ELSE l.topic

\* The sequence sub stands in seq, character after character.
Contains(seq, sub) ==
    \E k \in 0..(Len(seq) - Len(sub)) :
        \A n \in 1..Len(sub) : seq[k + n] = sub[n]

\* The topics that differ from t in one character mask_secret hides.
HiddenVariants(t) == { [t EXCEPT ![k] = "x"] : k \in 2..(Len(t) - 1) }

\* C33: no log record of notify_ntfy shows the topic as it is, in dry-run and
\* in real mode, whether the POST succeeds or fails, whatever the length of
\* the topic; and the log is the same for topics that differ only in
\* characters mask_secret hides.
C33_TopicMaskedInLogs ==
    ev.kind = "notify" =>
        /\ \A k \in DOMAIN ev.log : ~Contains(Shown(ev.log[k]), ev.topic)
        /\ \A t \in HiddenVariants(ev.topic) :
              /\ mask_secret(t) = mask_secret(ev.topic)
              /\ NotifyLog(ev.result, t, Title(ev.at.symbol), ev.body) = ev.log

\* ------------------------------------------------------------------ C34
\* The prices get_open_and_last can return: open and last of a usable frame.
FetchedPrices ==
    { IntradayPrices(df) : df \in UsableFrames } \cup { DailyPrices(df) : df \in UsableFrames }

\* A ticker whose fetch failed in every tier is skipped with no delivery and no
\* change of the record, the test override active or not.
FailedFetchIsSkipped ==
    (ev.kind = "skipped" /\ ev.error = NoDataError(ev.at.symbol))
        => /\ LoopGoesOn
           /\ sent = ev.at.sent
           /\ state = ev.at.record

\* With the override active the decision and the message use the forced
\* delta, and the message shows the open and last that were fetched.
ForcedDeltaRealPrices ==
    /\ (pc = "debounce" /\ OverrideActive(test_cfg))
       => /\ delta_pct = test_cfg.force_delta_pct[1]
          /\ << open_p, last_p >> \in FetchedPrices
          /\ open_p # 0
    /\ (ev.kind = "notify" /\ OverrideActive(test_cfg))
       => /\ ev.body.delta = test_cfg.force_delta_pct[1]
          /\ ev.body.text[1][5] = Fixed(test_cfg.force_delta_pct[1], 2)
          /\ << ev.body.open, ev.body.last >> = ev.fetched
          /\ ev.fetched \in FetchedPrices
          /\ ev.body.text[2] = << "Open: ", Fixed(ev.fetched[1], 4) >>
          /\ ev.body.text[3] = << "Last: ", Fixed(ev.fetched[2], 4) >>

C34_WitnessSkipped ==
    /\ ev.kind = "skipped"
    /\ OverrideActive(test_cfg)
    /\ ev.error = NoDataError(ev.at.symbol)
    /\ LoopGoesOn

\* ------------------------------------------------------------------ C35
\* C35: a fetched opening price of zero does not abort the cycle: the division
\* error is caught by the handler of the fetch failures (the same warning is
\* logged), the ticker is skipped with no delivery and no change of the
\* record or the file, the loop goes on with the next ticker, and no decision
\* is ever taken on an opening price of zero.
C35_ZeroOpenIsSkipped ==
    /\ (ev.kind = "skipped" /\ ev.error.type = "ZeroDivisionError")
       => /\ LoopGoesOn
          /\ sent = ev.at.sent
          /\ state = ev.at.record
          /\ file = ev.at.file
          /\ logged = {"WARNING Could not fetch prices"}
    /\ (ev.kind = "skipped" /\ ev.error = NoDataError(ev.at.symbol))
       => "WARNING Could not fetch prices" \in logged
    /\ pc \in {"debounce", "enrich", "deliver"} => open_p # 0
    /\ ev.kind = "notify" => ev.fetched[1] # 0

\* C35 happens: the first of two tickers came with an opening price of zero,
\* was skipped, and the second ticker is being fetched.
C35_Witness ==
    /\ ev.kind = "skipped"
    /\ ev.error.type = "ZeroDivisionError"
    /\ ev.at.index = 1
    /\ Len(tickers) = 2
    /\ i = 2
    /\ pc = "intraday"
    /\ exit = "none"

\* ------------------------------------------------------------------ C36
\* The running occurrence is a later occurrence of the ticker of the cycle's
\* last notify_ntfy call.
SecondOccurrence == "at" \in DOMAIN ev /\ ev.at.last.symbol = ev.at.symbol

\* C36: every occurrence of a ticker in the list makes at most one notify_ntfy
\* call, so a cycle makes at most len(tickers) calls; a later occurrence of a
\* ticker is debounced against the record in memory, which holds the
\* direction of the earlier call when that call returned: it is suppressed
\* when its direction is that direction, and it makes a call only if its
\* direction differs from it or the earlier call raised.
C36_OneCallPerOccurrence ==
    /\ pc \in {"intraday", "daily", "daily5", "delta", "debounce", "enrich", "deliver"}
       => sent <= i - 1
    /\ pc = "persist" => sent <= Len(tickers)
    /\ ev.kind = "notify" => sent = ev.at.sent + 1 /\ i = ev.at.index + 1
    /\ ev.kind \in {"miss", "fetched", "skipped", "decided", "debounce", "enriched"}
       => sent = ev.at.sent
    /\ (ev.kind = "debounce" /\ SecondOccurrence /\ ~ev.at.last.raised)
       => /\ ev.at.prior = ev.at.last.dir
          /\ ev.dir = ev.at.last.dir => LoopGoesOn
          /\ pc = "enrich" => ev.dir # ev.at.last.dir
    /\ (ev.kind = "notify" /\ SecondOccurrence)
       => ev.dir # ev.at.last.dir \/ ev.at.last.raised

\* C36 happens: AAPL is listed twice, the file holds no entry for it, the
\* first occurrence was alerted "up" and the second, "up" again, was
\* suppressed: one call in the cycle.
C36_Witness ==
    /\ ev.kind = "debounce"
    /\ ev.at.index = 2
    /\ ev.at.last = [symbol |-> "AAPL", dir |-> "up", raised |-> FALSE]
    /\ ev.at.symbol = "AAPL"
    /\ ev.dir = "up"
    /\ Get(load_state(ev.at.file).value, "AAPL") = None
    /\ sent = 1
    /\ pc = "persist"

\* C36 happens, the other way: the call of the first occurrence raised and
\* the second occurrence, of the same direction, made a call again.
C36_WitnessAgain ==
    /\ ev.kind = "notify"
    /\ ev.at.index = 2
    /\ ev.at.last = [symbol |-> ev.at.symbol, dir |-> ev.dir, raised |-> TRUE]
    /\ sent = 2

\* ------------------------------------------------------------------ C37
\* The call of the last step delivered an alert (a dry run counts as one).
Delivered(e) == ~e.result.raised /\ (e.result.delivered \/ e.dry_run)

\* C37: a cycle changes only the entries of the tickers it delivered an alert
\* for: the record in memory starts as the loaded record, a step that fetches,
\* skips, decides, suppresses or enriches leaves every entry as it is, a
\* notify_ntfy call leaves the entries of all other keys (listed or not) as
\* they are, and a call that delivered nothing leaves the entry of its own
\* ticker as it is too.
C37_OnlyDeliveredEntriesChange ==
    /\ ev.kind = "loaded" => state = load_state(file).value
    /\ ev.kind \in {"miss", "fetched", "skipped", "decided", "debounce", "enriched"}
       => state = ev.at.record /\ file = ev.at.file
    /\ ev.kind = "notify"
       => /\ \A t \in Tickers \ {ev.at.symbol} : Get(state, t) = Get(ev.at.record, t)
          /\ file = ev.at.file
          /\ ~Delivered(ev) => state = ev.at.record

\* ------------------------------------------------------------------ C38
\* deep_merge left every dict that existed before the call as it was.
DeepMergeKeepsArguments ==
    ev.kind = "config" => \A id \in DOMAIN ev.args : ev.merged[id] = ev.args[id]

\* C38: load_config never changes DEFAULTS: after any sequence of calls, with
\* any config file and any LOG_LEVEL / NTFY_SERVER / NTFY_TOPIC, DEFAULTS and
\* its nested log and ntfy dicts are what they were at import, so a call
\* returns (or raises) what the first call of a process would; and deep_merge
\* leaves both of its arguments unchanged.
C38_DefaultsNeverMutated ==
    /\ DEFAULTS = DefaultsHeap
    /\ ev.kind = "config"
       => LET first == load_config(DefaultsHeap, ev.file, ev.env) IN
          /\ ev.raised = first.raised
          /\ ev.cfg = first.cfg
    /\ DeepMergeKeepsArguments

\* ------------------------------------------------------------------ C39
\* C39: with enabled = true a window with start_hour >= end_hour (overnight,
\* as 22 to 6, or start equal to end) is never open: is_market_hours returns
\* false at every weekday, hour and minute, in every zone; the window does not
\* wrap around midnight.
C39_NoWrapAroundMidnight ==
    ( /\ ev.kind = "clock"
      /\ ev.cfg.enabled
      /\ ev.cfg.start_hour >= ev.cfg.end_hour )
    => /\ ~ev.result.open
       /\ ~ev.result.raised
       /\ \A m \in 0..59 :
             ~is_market_hours_call(ev.cfg, [ev.utc EXCEPT !.minute = m]).open

\* C39 happens: the window is 22 to 6, it is Monday 23:59 in Berlin, and the
\* market is closed.
C39_Witness ==
    /\ ev.kind = "clock"
    /\ ev.cfg.enabled
    /\ ev.cfg.start_hour = 22
    /\ ev.cfg.end_hour = 6
    /\ ev.cfg.tz = "Europe/Berlin"
    /\ ev.result.now.weekday = 0
    /\ ev.result.now.hour = 23
    /\ ev.result.now.minute = 59
    /\ ~ev.result.open

\* C39 happens, start equal to end: the window is 8 to 8, it is 08:00, closed.
C39_WitnessEmptyWindow ==
    /\ ev.kind = "clock"
    /\ ev.cfg.enabled
    /\ ev.cfg.start_hour = 8
    /\ ev.cfg.end_hour = 8
    /\ ev.result.now.hour = 8
    /\ ~ev.result.open

\* ------------------------------------------------------------------ C40
\* C40: for a threshold t >= 0 the arrow of a delivered message agrees with
\* the direction of the alert: a message for "up" carries the up arrow and a
\* message for "down" the down arrow, in the body and in its first line, also
\* at t = 0 and delta = 0; and so for every whole delta and threshold near the
\* thresholds of the runs.
C40_ArrowAgreesWithDirection ==
    /\ (ev.kind = "notify" /\ threshold_pct >= 0)
       => /\ ev.dir \in {"up", "down"}
          /\ ev.dir = Direction(ev.body.delta, threshold_pct)
          /\ ev.body.arrow = (IF ev.dir = "up" THEN "green up" ELSE "red down")
          /\ ev.body.text[1][1] = ev.body.arrow
    /\ ev.kind = "notify"
       => \A t \in 0..4, d \in -5..5 :
             /\ Direction(d, t) = "up" => HeadLine(ev.at.symbol, d)[1] = "green up"
             /\ Direction(d, t) = "down" => HeadLine(ev.at.symbol, d)[1] = "red down"

\* C40 happens: threshold 0, the price did not move, the alert is "up" and
\* the message carries the up arrow.
C40_Witness ==
    /\ ev.kind = "notify"
    /\ threshold_pct = 0
    /\ ev.body.delta = 0
    /\ ev.body.open = 100
    /\ ev.body.last = 100
    /\ ev.dir = "up"
    /\ ev.body.arrow = "green up"
    /\ ev.result.delivered

\* C40 happens, downwards: a fall of three percent at threshold 3, alert
\* "down" with the down arrow.
C40_WitnessDown ==
    /\ ev.kind = "notify"
    /\ threshold_pct = 3
    /\ ev.body.delta = -3
    /\ ev.dir = "down"
    /\ ev.body.arrow = "red down"

====
